---------------------------- MODULE Spec2Model ----------------------------
(***************************************************************************)
(* Model of the DocumentAnalyzer repository: the document classifiers,     *)
(* the field-completeness and validity checkers, the Q&A formatters and    *)
(* the HTTP handlers that wrap them.                                       *)
(*                                                                         *)
(* Strings are sequences of one-character strings, so that                 *)
(* String.includes, toLowerCase and RegExp.test are computed on the        *)
(* characters as the JavaScript does.  A document text is kept in the      *)
(* state as the sequence of its lines; TextChars joins them with "\n".     *)
(***************************************************************************)
EXTENDS Integers, Sequences, FiniteSets, TLC

VARIABLES
    text,        \* documentText: the sequence of the lines of the document
    filename,    \* the uploaded file's name
    docType,     \* the documentType argument of the checkers
    now,         \* new Date(): the instant of the check, in ticks
    fields,      \* the extracted fields handed to validateDocument
    question,    \* the question asked, a sequence of words
    documentData,    \* the analysis result a question is asked against
    request,     \* the POST /api/ScanDoc request: its file and its context field
    upstream,    \* the services behind the server: whether they are configured and
                 \* what they answer to this request
    chatSystem,      \* the EnhancedChatSystem of the page
    learningSystem,  \* the SelfLearningSystem of the page
    localStorage,    \* localStorage of the browser
    timer,       \* the timer of the mock server: "none", "scheduled" or "fired"
    aiAnalyzer,  \* the AIDocumentAnalyzer of the page
    trainingSystem,  \* the AITrainingSystem of the page and the run of its startTraining
    calls,       \* how many operations the page has asked for, by kind
    dashboard,   \* the buttons of the TrainingDashboard of the page
    inflight,    \* the calls that are under way: the requests the server has received
                 \* or the calls of an async method, each with where it stands
    op,          \* the operation that ran ("none" before any)
    result       \* what the operation returned

\* what an operation is given, and what the operations may change
inputs == <<text, filename, docType, now, fields, question, documentData, request, upstream>>
training == <<aiAnalyzer, trainingSystem, calls, dashboard>>
systems == <<chatSystem, learningSystem, localStorage, timer, training, inflight>>

vars == <<inputs, systems, op, result>>

\* The characters of a string literal: a string is the sequence of its
\* characters, each of them a string of length one.
Str(s) == [i \in 1..Len(s) |-> SubSeq(s, i, i)]

NL == "\n"

(***************************************************************************)
(* Characters and strings                                                  *)
(***************************************************************************)
UpperLetters ==
    <<"A","B","C","D","E","F","G","H","I","J","K","L","M",
      "N","O","P","Q","R","S","T","U","V","W","X","Y","Z">>
LowerLetters ==
    <<"a","b","c","d","e","f","g","h","i","j","k","l","m",
      "n","o","p","q","r","s","t","u","v","w","x","y","z">>
Digits == {"0","1","2","3","4","5","6","7","8","9"}
Letters == {UpperLetters[i] : i \in 1..26} \cup {LowerLetters[i] : i \in 1..26}
Whitespace == {" ", "\t", "\n", "\r"}

ToLower == [c \in {UpperLetters[i] : i \in 1..26} |->
                LowerLetters[CHOOSE i \in 1..26 : UpperLetters[i] = c]]
ToUpper == [c \in {LowerLetters[i] : i \in 1..26} |->
                UpperLetters[CHOOSE i \in 1..26 : LowerLetters[i] = c]]
LowerChar(c) == IF c \in DOMAIN ToLower THEN ToLower[c] ELSE c
UpperChar(c) == IF c \in DOMAIN ToUpper THEN ToUpper[c] ELSE c

\* String.prototype.toLowerCase / toUpperCase
toLowerCase(s) == [i \in 1..Len(s) |-> LowerChar(s[i])]
toUpperCase(s) == [i \in 1..Len(s) |-> UpperChar(s[i])]

\* sub occurs in s at offset i (0-based)
OccursAt(s, sub, i) ==
    /\ i + Len(sub) <= Len(s)
    /\ \A k \in 1..Len(sub) : s[i + k] = sub[k]

\* String.prototype.includes
includes(s, sub) == \E i \in 0..Len(s) : OccursAt(s, sub, i)

\* s.includes("literal")
Has(s, lit) == includes(s, Str(lit))

RECURSIVE JoinLines(_)
JoinLines(ls) ==
    IF ls = <<>> THEN <<>>
    ELSE IF Len(ls) = 1 THEN Str(ls[1])
    ELSE Str(ls[1]) \o <<NL>> \o JoinLines(Tail(ls))

\* the characters of a document text
TextChars(t) == JoinLines(t)

(***************************************************************************)
(* Regular expressions: an expression is a tree; MatchEnds gives every     *)
(* offset at which a match starting at offset i can end, so that           *)
(* RegExp.test is "some start has some end".                               *)
(***************************************************************************)
Lit(s)   == [t |-> "lit",  s |-> Str(s), k |-> <<>>]
Cls(set) == [t |-> "cls",  s |-> set,    k |-> <<>>]
AnyChar  == [t |-> "any",  s |-> {},     k |-> <<>>]
Bol      == [t |-> "bol",  s |-> {},     k |-> <<>>]
Cat(ks)  == [t |-> "cat",  s |-> {},     k |-> ks]
Alt(ks)  == [t |-> "alt",  s |-> {},     k |-> ks]
Star(n)  == [t |-> "star", s |-> {},     k |-> <<n>>]
Plus(n)  == Cat(<<n, Star(n)>>)
Opt(n)   == Alt(<<Cat(<<>>), n>>)

WS    == Cls(Whitespace)            \* \s
Digit == Cls(Digits)                \* \d

\* with the i flag a character of the subject is compared in lower case; the
\* expressions of /.../i patterns are written in lower case, as in the source
Fold(c, ci) == IF ci THEN LowerChar(c) ELSE c

RECURSIVE MatchEnds(_, _, _, _), CatEnds(_, _, _, _, _), StarEnds(_, _, _, _, _)
MatchEnds(re, s, i, ci) ==
    CASE re.t = "lit"  -> IF /\ i + Len(re.s) <= Len(s)
                             /\ \A k \in 1..Len(re.s) : Fold(s[i + k], ci) = re.s[k]
                          THEN {i + Len(re.s)} ELSE {}
      [] re.t = "cls"  -> IF i < Len(s) /\ Fold(s[i + 1], ci) \in re.s THEN {i + 1} ELSE {}
      [] re.t = "any"  -> IF i < Len(s) /\ s[i + 1] \notin {"\n", "\r"} THEN {i + 1} ELSE {}
      [] re.t = "bol"  -> IF i = 0 THEN {i} ELSE {}
      [] re.t = "cat"  -> CatEnds(re.k, 1, s, {i}, ci)
      [] re.t = "alt"  -> UNION {MatchEnds(re.k[j], s, i, ci) : j \in 1..Len(re.k)}
      [] re.t = "star" -> StarEnds(re.k[1], s, {i}, {i}, ci)
CatEnds(ks, j, s, ends, ci) ==
    IF j > Len(ks) \/ ends = {} THEN ends
    ELSE CatEnds(ks, j + 1, s, UNION {MatchEnds(ks[j], s, e, ci) : e \in ends}, ci)
StarEnds(n, s, frontier, acc, ci) ==
    LET nxt == (UNION {MatchEnds(n, s, e, ci) : e \in frontier}) \ acc
    IN  IF nxt = {} THEN acc ELSE StarEnds(n, s, nxt, acc \cup nxt, ci)

\* a pattern is an expression and its i flag
Re(re)  == [re |-> re, ci |-> FALSE]
ReI(re) == [re |-> re, ci |-> TRUE]

\* RegExp.prototype.test
test(p, s) == \E i \in 0..Len(s) : MatchEnds(p.re, s, i, p.ci) # {}

Max(S) == CHOOSE x \in S : \A y \in S : y <= x
Min(S) == CHOOSE x \in S : \A y \in S : x <= y

\* where the first match at or after pos starts, -1 when there is none
FirstStart(p, s, pos) ==
    LET starts == {i \in pos..Len(s) : MatchEnds(p.re, s, i, p.ci) # {}}
    IN  IF starts = {} THEN -1 ELSE Min(starts)

\* String.prototype.match with a g flag: the matches from left to right, each
\* search resuming where the last match ended.  Every pattern used with it
\* matches at most one (non-empty) string from a given start.
RECURSIVE AllMatches(_, _, _)
AllMatches(p, s, pos) ==
    LET i == FirstStart(p, s, pos)
    IN  IF i < 0 THEN <<>>
        ELSE LET e == Max(MatchEnds(p.re, s, i, p.ci))
             IN  <<SubSeq(s, i + 1, e)>> \o AllMatches(p, s, e)

\* the capture group of the first match of /prefix(run)/, <<>> (null) when the
\* pattern does not match.  prefix ends in greedy repetitions of characters that
\* run does not accept, so the group starts after the longest prefix and is the
\* longest run from there.
CaptureAfter(prefix, run, ci, s) ==
    LET i == FirstStart([re |-> Cat(<<prefix, run>>), ci |-> ci], s, 0)
    IN  IF i < 0 THEN <<>>
        ELSE LET e == Max({x \in MatchEnds(prefix, s, i, ci) : MatchEnds(run, s, x, ci) # {}})
             IN  SubSeq(s, e + 1, Max(MatchEnds(run, s, e, ci)))

\* whether the whole string matches
FullMatch(re, s) == Len(s) \in MatchEnds(re, s, 0, FALSE)

DigitValue == [c \in Digits |-> CHOOSE n \in 0..9 : ToString(n) = c]
RECURSIVE ParseDigits(_)
ParseDigits(s) ==
    IF s = <<>> THEN 0 ELSE 10 * ParseDigits(SubSeq(s, 1, Len(s) - 1)) + DigitValue[s[Len(s)]]

\* a JavaScript number, NaN, or null
Number(n) == [kind |-> "number", v |-> n]
NaN == [kind |-> "NaN"]
Null == [kind |-> "null"]
IsNumber(x) == x.kind = "number"

\* what a function that may throw did
Returned(value) == [threw |-> FALSE, value |-> value]
Threw(message) == [threw |-> TRUE, message |-> message]

\* instants are counted in ticks since 1970-01-01T00:00Z; the servers' time
\* zone is UTC
TicksPerDay == 2

\* days since 1970-01-01 of a civil date; a day past the end of the month
\* runs into the next month, as MakeDay does
DaysFromCivil(y, m, d) ==
    LET yy == IF m <= 2 THEN y - 1 ELSE y
        era == yy \div 400
        yoe == yy - era * 400
        mp == IF m > 2 THEN m - 3 ELSE m + 9
        doy == (153 * mp + 2) \div 5 + d - 1
        doe == yoe * 365 + yoe \div 4 - yoe \div 100 + doy
    IN  era * 146097 + doe - 719468

IsoDate == Cat(<<Digit, Digit, Digit, Digit, Lit("-"), Digit, Digit, Lit("-"), Digit, Digit>>)

\* new Date(string).getTime() for the two formats the documents use,
\* yyyy-mm-dd and m/d/yyyy; NaN for an Invalid Date
ParseDate(s) ==
    IF FullMatch(IsoDate, s)
    THEN LET y == ParseDigits(SubSeq(s, 1, 4))
             m == ParseDigits(SubSeq(s, 6, 7))
             d == ParseDigits(SubSeq(s, 9, 10))
         IN  IF m \in 1..12 /\ d \in 1..31
             THEN Number(TicksPerDay * DaysFromCivil(y, m, d)) ELSE NaN
    ELSE IF FullMatch(Cat(<<Digit, Opt(Digit), Lit("/"), Digit, Opt(Digit), Lit("/"),
                            Digit, Digit, Digit, Digit>>), s)
    THEN LET s1 == Min({i \in 1..Len(s) : s[i] = "/"})
             s2 == Max({i \in 1..Len(s) : s[i] = "/"})
             m == ParseDigits(SubSeq(s, 1, s1 - 1))
             d == ParseDigits(SubSeq(s, s1 + 1, s2 - 1))
             y == ParseDigits(SubSeq(s, s2 + 1, Len(s)))
         IN  IF m \in 1..12 /\ d \in 1..31
             THEN Number(TicksPerDay * DaysFromCivil(y, m, d)) ELSE NaN
    ELSE NaN

\* a rational number num/den, den > 0; confidences are kept exact
Ratio(n, d) == [num |-> n, den |-> d]
RatioLeq(x, y) == x.num * y.den <= y.num * x.den
RatioLess(x, y) == x.num * y.den < y.num * x.den

(***************************************************************************)
(* function-app.js: DocumentAnalyzer                                       *)
(***************************************************************************)
APS   == "Agreement of Purchase and Sale (APS)"
LEASE == "Residential Lease Agreement"
LTB   == "Landlord and Tenant Board Form"

\* this.documentTypes
FA_documentTypes ==
    APS :> [requiredFields |-> <<"purchasePrice", "closingDate", "buyerName",
                                 "sellerName", "propertyAddress", "depositAmount">>,
            validityRules |-> [maxAge |-> 365, requiredSignatures |-> <<"buyer", "seller">>]]
    @@
    LEASE :> [requiredFields |-> <<"rentAmount", "leaseStartDate", "leaseEndDate",
                                   "tenantName", "landlordName", "propertyAddress">>,
              validityRules |-> [maxAge |-> 365, requiredSignatures |-> <<"tenant", "landlord">>]]
    @@
    LTB :> [requiredFields |-> <<"formNumber", "tenantName", "landlordName",
                                 "propertyAddress", "issueDate">>,
            validityRules |-> [maxAge |-> 30, requiredSignatures |-> <<"applicant">>]]

\* this.documentTypes[documentType] || this.documentTypes[APS]
FA_docConfig(documentType) ==
    IF documentType \in DOMAIN FA_documentTypes
    THEN FA_documentTypes[documentType]
    ELSE FA_documentTypes[APS]

DigitOrComma == Cls(Digits \cup {","})      \* [\d,]
FormLetter   == Cls({"n", "N", "t", "T"})   \* [nNtT]

\* the patterns table of isFieldPresent
FA_fieldPatterns ==
    [purchasePrice   |-> ReI(Alt(<<Cat(<<Lit("$"), Plus(DigitOrComma)>>),
                                   Cat(<<Lit("purchase"), Star(WS), Lit("price")>>)>>)),
     closingDate     |-> ReI(Alt(<<Cat(<<Lit("closing"), Star(WS), Lit("date")>>),
                                   Cat(<<Lit("closes"), Star(WS), Lit("on")>>)>>)),
     buyerName       |-> ReI(Alt(<<Lit("buyer"), Lit("purchaser")>>)),
     sellerName      |-> ReI(Alt(<<Lit("seller"), Lit("vendor")>>)),
     propertyAddress |-> ReI(Alt(<<Lit("address"),
                                   Cat(<<Lit("property"), Star(WS), Lit("located")>>)>>)),
     depositAmount   |-> ReI(Alt(<<Lit("deposit"),
                                   Cat(<<Lit("down"), Star(WS), Lit("payment")>>)>>)),
     rentAmount      |-> ReI(Alt(<<Lit("rent"),
                                   Cat(<<Lit("rental"), Star(WS), Lit("amount")>>)>>)),
     leaseStartDate  |-> ReI(Alt(<<Cat(<<Lit("lease"), Star(WS), Lit("start")>>),
                                   Lit("commencing")>>)),
     leaseEndDate    |-> ReI(Alt(<<Cat(<<Lit("lease"), Star(WS), Lit("end")>>),
                                   Lit("expiring")>>)),
     tenantName      |-> ReI(Alt(<<Lit("tenant"), Lit("lessee")>>)),
     landlordName    |-> ReI(Alt(<<Lit("landlord"), Lit("lessor")>>)),
     formNumber      |-> Re(Alt(<<Cat(<<Lit("form"), Star(WS), FormLetter, Plus(Digit)>>),
                                  Cat(<<Bol, FormLetter, Plus(Digit)>>)>>)),
     issueDate       |-> ReI(Alt(<<Cat(<<Lit("issue"), Star(WS), Lit("date")>>),
                                   Lit("dated")>>))]

\* the patterns without their i flag
CaseSensitiveFieldPresent(chars, fieldName) ==
    IF fieldName \in DOMAIN FA_fieldPatterns
    THEN test(Re(FA_fieldPatterns[fieldName].re), chars)
    ELSE FALSE

FA_isFieldPresent(chars, fieldName) ==
    IF fieldName \in DOMAIN FA_fieldPatterns
    THEN test(FA_fieldPatterns[fieldName], chars)
    ELSE FALSE

\* the patterns table of checkSignature
FA_signaturePatterns ==
    [buyer     |-> ReI(Alt(<<Cat(<<Lit("buyer"), Star(WS), Lit("signature")>>),
                             Cat(<<Lit("signed"), Star(WS), Lit("by"), Star(WS), Lit("buyer")>>)>>)),
     seller    |-> ReI(Alt(<<Cat(<<Lit("seller"), Star(WS), Lit("signature")>>),
                             Cat(<<Lit("signed"), Star(WS), Lit("by"), Star(WS), Lit("seller")>>)>>)),
     tenant    |-> ReI(Alt(<<Cat(<<Lit("tenant"), Star(WS), Lit("signature")>>),
                             Cat(<<Lit("signed"), Star(WS), Lit("by"), Star(WS), Lit("tenant")>>)>>)),
     landlord  |-> ReI(Alt(<<Cat(<<Lit("landlord"), Star(WS), Lit("signature")>>),
                             Cat(<<Lit("signed"), Star(WS), Lit("by"), Star(WS), Lit("landlord")>>)>>)),
     applicant |-> ReI(Alt(<<Cat(<<Lit("applicant"), Star(WS), Lit("signature")>>),
                             Cat(<<Lit("signed"), Star(WS), Lit("by"), Star(WS), Lit("applicant")>>)>>))]

\* the role names of the profiles are lower case already, so
\* signatureType.toLowerCase() is the role itself
FA_checkSignature(chars, signatureType) ==
    IF signatureType \in DOMAIN FA_signaturePatterns
    THEN test(FA_signaturePatterns[signatureType], chars)
    ELSE FALSE

\* Math.round(num / den * 100) for 0 <= num <= den, den > 0
RoundPercent(num, den) == (200 * num + den) \div (2 * den)

\* a chain whose two middle labels are exchanged
ExchangedStatus(score) ==
    IF score >= 90 THEN "Complete"
    ELSE IF score >= 70 THEN "Partially Complete"
    ELSE IF score >= 50 THEN "Mostly Complete"
    ELSE "Incomplete"

\* the if/else chain of checkFieldCompleteness
FA_completenessStatus(score) ==
    IF score >= 90 THEN "Complete"
    ELSE IF score >= 70 THEN "Mostly Complete"
    ELSE IF score >= 50 THEN "Partially Complete"
    ELSE "Incomplete"

\* Math.floor in the place of Math.round
FlooredScore(presentRequired, requiredFields) ==
    (100 * Len(presentRequired)) \div Len(requiredFields)

FA_completenessScore(presentRequired, requiredFields) ==
    RoundPercent(Len(presentRequired), Len(requiredFields))

FA_checkFieldCompleteness(chars, documentType) ==
    LET requiredFields == FA_docConfig(documentType).requiredFields
        isPresent(f) == FA_isFieldPresent(chars, f)
        presentRequired == SelectSeq(requiredFields, isPresent)
        missingRequired == SelectSeq(requiredFields, LAMBDA f : ~isPresent(f))
        score == FA_completenessScore(presentRequired, requiredFields)
    IN  [score |-> score,
         status |-> FA_completenessStatus(score),
         missingRequired |-> missingRequired,
         presentRequired |-> presentRequired]

\* /date|dated|created|issued/i
FA_hasDatePattern == ReI(Alt(<<Lit("date"), Lit("dated"), Lit("created"), Lit("issued")>>))

\* the final if/else chain of checkDocumentValidity (status starts as 'Valid')
FA_validityStatus(score, issues) ==
    IF score < 80 THEN "Potentially Invalid"
    ELSE IF Len(issues) > 0 THEN "Valid with Issues"
    ELSE "Valid"

FA_checkDocumentValidity(chars, documentType) ==
    LET validityRules == FA_docConfig(documentType).validityRules
        requiredSignatures == validityRules.requiredSignatures
        missing == SelectSeq(requiredSignatures, LAMBDA sig : ~FA_checkSignature(chars, sig))
        issues == [i \in 1..Len(missing) |-> <<"Missing required signature", missing[i]>>]
        hasDate == test(FA_hasDatePattern, chars)
        warnings == IF hasDate THEN <<>> ELSE <<"No date found in document">>
        score == 100 - 20 * Len(missing) - (IF hasDate THEN 0 ELSE 10)
    IN  [status |-> FA_validityStatus(score, issues),
         score |-> score,
         issues |-> issues,
         warnings |-> warnings,
         expiryInfo |-> [isExpired |-> FALSE, ageInDays |-> Null]]

\* identifyDocumentType: the filename decides, the text is not read
FA_identifyDocumentType(chars, fname) ==
    LET filename_lower == toLowerCase(fname)
    IN  IF Has(filename_lower, "purchase") \/ Has(filename_lower, "sale")
           \/ Has(filename_lower, "aps")
        THEN [documentType |-> APS, confidence |-> Ratio(90, 100), jurisdiction |-> "Ontario"]
        ELSE IF Has(filename_lower, "lease") \/ Has(filename_lower, "rental")
        THEN [documentType |-> LEASE, confidence |-> Ratio(85, 100), jurisdiction |-> "Ontario"]
        ELSE IF Has(filename_lower, "n1") \/ Has(filename_lower, "n4")
                \/ Has(filename_lower, "ltb")
        THEN [documentType |-> LTB, confidence |-> Ratio(88, 100), jurisdiction |-> "Ontario"]
        ELSE [documentType |-> "Legal Document", confidence |-> Ratio(60, 100), jurisdiction |-> "Ontario"]

(***************************************************************************)
(* ml-plugins (src/unnamed/part_001): DocumentClassifier                   *)
(***************************************************************************)
\* this.models, in the order of Object.entries
ML_modelOrder == <<APS, LEASE, LTB>>
ML_models ==
    APS :> [keywords |-> <<Str("purchase"), Str("sale"), Str("buyer"), Str("seller"),
                           Str("closing"), Str("property"), Str("price")>>,
            patterns |-> <<Str("agreement of purchase"), Str("purchase and sale"),
                           Str("real estate")>>]
    @@
    LEASE :> [keywords |-> <<Str("lease"), Str("rent"), Str("tenant"), Str("landlord"),
                             Str("rental"), Str("monthly")>>,
              patterns |-> <<Str("lease agreement"), Str("rental agreement"),
                             Str("tenancy")>>]
    @@
    LTB :> [keywords |-> <<Str("ltb"), Str("board"), Str("application"), Str("hearing"),
                           Str("tribunal")>>,
            patterns |-> <<Str("landlord and tenant board"), Str("ltb form")>>]

\* the number of entries of a list that the file name includes
CountIncluded(fname, list) ==
    Cardinality({i \in 1..Len(list) : includes(fname, toLowerCase(list[i]))})

\* The score is a double: 0.4 is added once per pattern, then 0.1 once per
\* keyword.  It is kept in thousandths; the sums that are not the nearest
\* double of their decimal value are one unit off it, on the side the
\* IEEE-754 additions land (0.1+0.1+0.1 = 0.30000000000000004,
\* 0.4+0.1+0.1+0.1+0.1 = 0.7999999999999999, one more 0.1 = 0.8999999999999999).
ML_doubleSum(p, k) ==
    400 * p + 100 * k
    + (IF p = 0 /\ k = 3 THEN 1 ELSE IF p = 1 /\ k \in {4, 5} THEN -1 ELSE 0)

\* calculateScore: Math.min(score, 0.95)
ML_calculateScore(fname, model) ==
    LET sum == ML_doubleSum(CountIncluded(fname, model.patterns),
                            CountIncluded(fname, model.keywords))
    IN  IF sum < 950 THEN sum ELSE 950

ML_analyzeFileContent(fname) ==
    LET f == toLowerCase(fname)
    IN  IF Has(f, "a2") \/ Has(f, "a-2")
        THEN [type |-> "A2 Form (Landlord and Tenant Board)", confidence |-> 900]
        ELSE IF Has(f, "lease") \/ Has(f, "rental")
        THEN [type |-> LEASE, confidence |-> 800]
        ELSE IF Has(f, "ltb") \/ Has(f, "landlord") \/ Has(f, "tenant")
        THEN [type |-> LTB, confidence |-> 800]
        ELSE IF Has(f, "waiver") \/ Has(f, "fee")
        THEN [type |-> "Fee Waiver Request", confidence |-> 800]
        ELSE IF Has(f, "mortgage") \/ Has(f, "loan")
        THEN [type |-> "Mortgage Document", confidence |-> 800]
        ELSE IF Has(f, "insurance") \/ Has(f, "policy")
        THEN [type |-> "Insurance Document", confidence |-> 800]
        ELSE IF Has(f, "contract") \/ Has(f, "agreement")
        THEN [type |-> "General Contract", confidence |-> 600]
        ELSE IF Has(f, "invoice") \/ Has(f, "bill")
        THEN [type |-> "Invoice/Bill", confidence |-> 700]
        ELSE IF Has(f, "receipt") \/ Has(f, "payment")
        THEN [type |-> "Receipt/Payment", confidence |-> 700]
        ELSE IF Has(f, "statement") \/ Has(f, "account")
        THEN [type |-> "Financial Statement", confidence |-> 700]
        ELSE IF Has(f, "report") \/ Has(f, "analysis")
        THEN [type |-> "Report/Analysis", confidence |-> 600]
        ELSE IF Has(f, "letter") \/ Has(f, "correspondence")
        THEN [type |-> "Letter/Correspondence", confidence |-> 600]
        ELSE IF Has(f, "form") \/ Has(f, "application")
        THEN [type |-> "Form/Application", confidence |-> 600]
        ELSE [type |-> "Unknown Document", confidence |-> 200]

\* classify without its last step, the replacement of a weak match by the
\* generic type
ML_classifyWithoutFallback(fname) ==
    LET contentAnalysis == ML_analyzeFileContent(fname)
    IN  IF contentAnalysis.confidence > 300
        THEN [type |-> contentAnalysis.type, confidence |-> Ratio(contentAnalysis.confidence, 1000)]
        ELSE [type |-> "Unknown Document", confidence |-> Ratio(300, 1000)]

\* the loop of classify over this.models
RECURSIVE ML_bestOfModels(_, _, _)
ML_bestOfModels(filenameLower, j, bestMatch) ==
    IF j > Len(ML_modelOrder) THEN bestMatch
    ELSE LET score == ML_calculateScore(filenameLower, ML_models[ML_modelOrder[j]])
         IN  ML_bestOfModels(filenameLower, j + 1,
                 IF score > bestMatch.confidence
                 THEN [type |-> ML_modelOrder[j], confidence |-> score]
                 ELSE bestMatch)

\* classify(file, filename): the file is not read; confidence in thousandths
ML_classify(fname) ==
    LET filenameLower == toLowerCase(fname)
        b1 == ML_bestOfModels(filenameLower, 1,
                              [type |-> "Unknown Document", confidence |-> 300])
        contentAnalysis == ML_analyzeFileContent(fname)
        b2 == IF b1.confidence < 600 /\ contentAnalysis.confidence > b1.confidence
              THEN contentAnalysis ELSE b1
        b3 == IF b2.confidence < 400
              THEN [type |-> "General Legal Document", confidence |-> 300]
              ELSE b2
    IN  [type |-> b3.type, confidence |-> Ratio(b3.confidence, 1000)]

(***************************************************************************)
(* ai-document-analyzer.js: AIDocumentAnalyzer                             *)
(***************************************************************************)
Sp   == Plus(WS)                          \* \s+
Sps  == Star(WS)                          \* \s*
Colon == Opt(Lit(":"))                    \* :?
Dollar == Opt(Lit("$"))                   \* \$?
Amount == Plus(DigitOrComma)              \* [\d,]+
AnyRun == Star(AnyChar)                   \* .*  and  .*?
SlashDate ==                              \* \d{1,2}\/\d{1,2}\/\d{4}
    Cat(<<Digit, Opt(Digit), Lit("/"), Digit, Opt(Digit), Lit("/"),
          Digit, Digit, Digit, Digit>>)
NameRun == Plus(Cls(Letters \cup Whitespace))                        \* [A-Za-z\s]+
AddressRun == Plus(Cls(Letters \cup Digits \cup Whitespace \cup {",", ".", "-"}))
WordRun == Plus(Cls(Letters \cup Digits \cup {"_", "-"}))            \* [\w\d-]+

\* the words of a phrase, separated by \s+
Words(ws) == Cat([i \in 1..(2 * Len(ws) - 1) |->
                     IF i % 2 = 1 THEN ws[(i + 1) \div 2] ELSE Sp])

\* initializeDocumentDatabase: this.documentPatterns, in insertion order
AI_documentPatterns ==
    << [name |-> "Agreement of Purchase and Sale",
        visualIndicators |-> <<Str("AGREEMENT OF PURCHASE AND SALE"), Str("PURCHASE PRICE"),
                               Str("CLOSING DATE"), Str("DEPOSIT"), Str("BUYER"),
                               Str("SELLER"), Str("PROPERTY ADDRESS")>>,
        textPatterns |-> <<
            ReI(Cat(<<Words(<<Lit("purchase"), Lit("price")>>), Sps, Colon, Sps, Dollar, Amount>>)),
            ReI(Cat(<<Words(<<Lit("closing"), Lit("date")>>), Sps, Colon, Sps, SlashDate>>)),
            ReI(Cat(<<Words(<<Lit("deposit"), Lit("amount")>>), Sps, Colon, Sps, Dollar, Amount>>)),
            ReI(Cat(<<Lit("between"), Sp, AnyRun, Sp, Lit("(buyer)"), Sp, Lit("and"),
                      Sp, AnyRun, Sp, Lit("(seller)")>>)) >>,
        requiredFields |-> <<"purchasePrice", "closingDate", "buyerName", "sellerName",
                             "propertyAddress", "depositAmount", "irrevocableDate">>,
        documentType |-> APS],
       [name |-> "A2 Form",
        visualIndicators |-> <<Str("APPLICATION TO INCREASE RENT"), Str("LANDLORD AND TENANT BOARD"),
                               Str("FORM A2"), Str("RENT INCREASE"), Str("ABOVE GUIDELINE")>>,
        textPatterns |-> <<
            ReI(Words(<<Lit("application"), Lit("to"), Lit("increase"), Lit("rent")>>)),
            ReI(Words(<<Lit("form"), Lit("a2")>>)),
            ReI(Words(<<Lit("landlord"), Lit("and"), Lit("tenant"), Lit("board")>>)),
            ReI(Words(<<Lit("above"), Lit("guideline"), Lit("increase")>>)) >>,
        requiredFields |-> <<"landlordName", "tenantName", "propertyAddress", "currentRent",
                             "proposedRent", "increaseReason", "applicationDate">>,
        documentType |-> "A2 Form (Landlord and Tenant Board)"],
       [name |-> "L1 Form",
        visualIndicators |-> <<Str("APPLICATION TO TERMINATE A TENANCY"), Str("FORM L1"),
                               Str("LANDLORD AND TENANT BOARD"), Str("EVICTION")>>,
        textPatterns |-> <<
            ReI(Words(<<Lit("application"), Lit("to"), Lit("terminate"), Lit("a"), Lit("tenancy")>>)),
            ReI(Words(<<Lit("form"), Lit("l1")>>)),
            ReI(Lit("eviction")) >>,
        requiredFields |-> <<"landlordName", "tenantName", "propertyAddress",
                             "terminationReason", "noticeDate", "hearingDate">>,
        documentType |-> "L1 Form (Landlord and Tenant Board)"],
       [name |-> "Residential Lease",
        visualIndicators |-> <<Str("RESIDENTIAL LEASE AGREEMENT"), Str("TENANT"), Str("LANDLORD"),
                               Str("RENT"), Str("LEASE TERM"), Str("SECURITY DEPOSIT")>>,
        textPatterns |-> <<
            ReI(Words(<<Lit("residential"), Lit("lease"), Lit("agreement")>>)),
            ReI(Cat(<<Words(<<Lit("monthly"), Lit("rent")>>), Sps, Colon, Sps, Dollar, Amount>>)),
            ReI(Cat(<<Words(<<Lit("lease"), Lit("term")>>), Sps, Colon, Sps, Plus(Digit), Sp,
                      Lit("month"), Opt(Lit("s"))>>)),
            ReI(Cat(<<Words(<<Lit("security"), Lit("deposit")>>), Sps, Colon, Sps, Dollar, Amount>>)) >>,
        requiredFields |-> <<"tenantName", "landlordName", "propertyAddress", "monthlyRent",
                             "leaseStartDate", "leaseEndDate", "securityDeposit">>,
        documentType |-> LEASE],
       [name |-> "Mortgage Document",
        visualIndicators |-> <<Str("MORTGAGE"), Str("PRINCIPAL AMOUNT"), Str("INTEREST RATE"),
                               Str("AMORTIZATION"), Str("LENDER")>>,
        textPatterns |-> <<
            ReI(Words(<<Lit("mortgage"), Lit("agreement")>>)),
            ReI(Cat(<<Words(<<Lit("principal"), Lit("amount")>>), Sps, Colon, Sps, Dollar, Amount>>)),
            ReI(Cat(<<Words(<<Lit("interest"), Lit("rate")>>), Sps, Colon, Sps,
                      Plus(Cls(Digits \cup {"."})), Lit("%")>>)),
            ReI(Cat(<<Words(<<Lit("amortization"), Lit("period")>>), Sps, Colon, Sps, Plus(Digit),
                      Sp, Lit("year"), Opt(Lit("s"))>>)) >>,
        requiredFields |-> <<"borrowerName", "lenderName", "propertyAddress", "principalAmount",
                             "interestRate", "amortizationPeriod", "monthlyPayment">>,
        documentType |-> "Mortgage Document"],
       [name |-> "Insurance Policy",
        visualIndicators |-> <<Str("INSURANCE POLICY"), Str("POLICY NUMBER"), Str("COVERAGE"),
                               Str("PREMIUM"), Str("DEDUCTIBLE")>>,
        textPatterns |-> <<
            ReI(Words(<<Lit("insurance"), Lit("policy")>>)),
            ReI(Cat(<<Words(<<Lit("policy"), Lit("number")>>), Sps, Colon, Sps, WordRun>>)),
            ReI(Cat(<<Words(<<Lit("coverage"), Lit("amount")>>), Sps, Colon, Sps, Dollar, Amount>>)),
            ReI(Cat(<<Words(<<Lit("annual"), Lit("premium")>>), Sps, Colon, Sps, Dollar, Amount>>)) >>,
        requiredFields |-> <<"policyNumber", "insuredName", "coverageType", "coverageAmount",
                             "premiumAmount", "effectiveDate", "expirationDate">>,
        documentType |-> "Insurance Policy"] >>

\* indicator.toLowerCase().replace(/\s+/g, '')
RemoveSpaces(s) == SelectSeq(s, LAMBDA c : c \notin Whitespace)

\* the body of the loop of classifyDocument for one pattern: score / totalChecks,
\* the score counted in halves because the file name adds 0.5
AI_patternConfidence(chars, fname, pattern) ==
    LET upper == toUpperCase(chars)
        visual == Cardinality({i \in 1..Len(pattern.visualIndicators) :
                                  includes(upper, pattern.visualIndicators[i])})
        textual == Cardinality({i \in 1..Len(pattern.textPatterns) :
                                   test(pattern.textPatterns[i], chars)})
        filenameLower == toLowerCase(fname)
        named == \E i \in 1..Len(pattern.visualIndicators) :
                    includes(filenameLower,
                             RemoveSpaces(toLowerCase(pattern.visualIndicators[i])))
        totalChecks == Len(pattern.visualIndicators) + Len(pattern.textPatterns)
    IN  Ratio(2 * (visual + textual) + (IF named THEN 1 ELSE 0), 2 * totalChecks)

\* the loop of classifyDocument over this.documentPatterns, from pattern j on
RECURSIVE AI_bestOfPatterns(_, _, _, _, _)
AI_bestOfPatterns(documentPatterns, chars, fname, j, bestMatch) ==
    IF j > Len(documentPatterns) THEN bestMatch
    ELSE LET confidence == AI_patternConfidence(chars, fname, documentPatterns[j])
         IN  AI_bestOfPatterns(documentPatterns, chars, fname, j + 1,
                 IF RatioLess(bestMatch.confidence, confidence)
                 THEN [documentType |-> documentPatterns[j].documentType,
                       confidence |-> IF RatioLeq(confidence, Ratio(1, 1))
                                      THEN confidence ELSE Ratio(1, 1)]
                 ELSE bestMatch)

\* classifyDocument of an analyzer whose documentPatterns are those given
AI_classifyWith(documentPatterns, chars, fname) ==
    AI_bestOfPatterns(documentPatterns, chars, fname, 1,
                      [documentType |-> "Unknown Document", confidence |-> Ratio(0, 1)])

\* classifyDocument of a new analyzer
AI_classifyDocument(chars, fname) == AI_classifyWith(AI_documentPatterns, chars, fname)

\* getFieldPatterns: the table, and [/.*/i] for a field it does not list
AI_fieldPatterns ==
    [purchasePrice   |-> <<ReI(Cat(<<Dollar, Amount, Opt(Cat(<<Lit("."), Digit, Digit>>))>>)),
                           ReI(Cat(<<Words(<<Lit("purchase"), Lit("price")>>), Sps, Colon, Sps,
                                     Dollar, Amount>>))>>,
     closingDate     |-> <<ReI(SlashDate),
                           ReI(Cat(<<Words(<<Lit("closing"), Lit("date")>>), Sps, Colon, Sps,
                                     SlashDate>>))>>,
     buyerName       |-> <<ReI(Cat(<<Lit("buyer"), Sps, Colon, Sps, NameRun>>)),
                           ReI(Cat(<<Lit("purchaser"), Sps, Colon, Sps, NameRun>>))>>,
     sellerName      |-> <<ReI(Cat(<<Lit("seller"), Sps, Colon, Sps, NameRun>>)),
                           ReI(Cat(<<Lit("vendor"), Sps, Colon, Sps, NameRun>>))>>,
     propertyAddress |-> <<ReI(Cat(<<Words(<<Lit("property"), Lit("address")>>), Sps, Colon, Sps,
                                     AddressRun>>)),
                           ReI(Cat(<<Lit("premises"), Sps, Colon, Sps, AddressRun>>))>>,
     depositAmount   |-> <<ReI(Cat(<<Lit("deposit"), Sps, Colon, Sps, Dollar, Amount>>)),
                           ReI(Cat(<<Words(<<Lit("earnest"), Lit("money")>>), Sps, Colon, Sps,
                                     Dollar, Amount>>))>>,
     monthlyRent     |-> <<ReI(Cat(<<Words(<<Lit("monthly"), Lit("rent")>>), Sps, Colon, Sps,
                                     Dollar, Amount>>)),
                           ReI(Cat(<<Lit("rent"), Sps, Colon, Sps, Dollar, Amount>>))>>,
     landlordName    |-> <<ReI(Cat(<<Lit("landlord"), Sps, Colon, Sps, NameRun>>)),
                           ReI(Cat(<<Lit("lessor"), Sps, Colon, Sps, NameRun>>))>>,
     tenantName      |-> <<ReI(Cat(<<Lit("tenant"), Sps, Colon, Sps, NameRun>>)),
                           ReI(Cat(<<Lit("lessee"), Sps, Colon, Sps, NameRun>>))>>]

AI_getFieldPatterns(fieldName) ==
    IF fieldName \in DOMAIN AI_fieldPatterns
    THEN AI_fieldPatterns[fieldName]
    ELSE <<ReI(AnyRun)>>

\* the status chain of analyzeFieldCompleteness, on the score before Math.round;
\* the score is present / total * 100
AI_completenessStatus(present, total) ==
    IF 100 * present < 50 * total THEN "Incomplete"
    ELSE IF 100 * present < 80 * total THEN "Partially Complete"
    ELSE IF 100 * present < 100 * total THEN "Mostly Complete"
    ELSE "Complete"

AI_completenessScore(presentFields, requiredFields) ==
    RoundPercent(Len(presentFields), Len(requiredFields))

\* analyzeFieldCompleteness of an analyzer whose documentPatterns are those given
AI_completenessWith(documentPatterns, chars, documentType) ==
    LET found == SelectSeq(documentPatterns, LAMBDA p : p.documentType = documentType)
    IN  IF found = <<>>
        THEN [score |-> 0, status |-> "Unknown Document Type",
              missingRequired |-> <<>>, presentRequired |-> <<>>]
        ELSE LET requiredFields == found[1].requiredFields
                 isFound(f) == \E i \in 1..Len(AI_getFieldPatterns(f)) :
                                  test(AI_getFieldPatterns(f)[i], chars)
                 presentFields == SelectSeq(requiredFields, isFound)
                 missingFields == SelectSeq(requiredFields, LAMBDA f : ~isFound(f))
             IN  [score |-> AI_completenessScore(presentFields, requiredFields),
                  status |-> AI_completenessStatus(Len(presentFields), Len(requiredFields)),
                  missingRequired |-> missingFields,
                  presentRequired |-> presentFields]

\* analyzeFieldCompleteness of a new analyzer
AI_analyzeFieldCompleteness(chars, documentType) ==
    AI_completenessWith(AI_documentPatterns, chars, documentType)

\* isDocumentExpired: some m/d/yyyy date of the text lies before today
AI_isDocumentExpired(chars, today) ==
    LET dates == AllMatches(Re(SlashDate), chars, 0)
    IN  \E i \in 1..Len(dates) :
            LET date == ParseDate(dates[i]) IN IsNumber(date) /\ date.v < today

AI_hasMissingSignatures(chars) ==
    ~ \/ test(ReI(Lit("signature")), chars)
      \/ test(ReI(Lit("signed")), chars)
      \/ test(ReI(Lit("witness")), chars)

AI_hasIncompleteSections(chars) ==
    \/ test(Re(Cat(<<Lit("["), AnyRun, Lit("]")>>)), chars)
    \/ test(Re(Cat(<<Lit("__"), Plus(Lit("_"))>>)), chars)
    \/ test(ReI(Lit("to be completed")), chars)
    \/ test(ReI(Lit("tbd")), chars)

AI_validityStatus(issues, warnings) ==
    IF Len(issues) > 0 THEN "Invalid"
    ELSE IF Len(warnings) > 0 THEN "Valid with Warnings"
    ELSE "Valid"

\* Math.max(0, score)
AI_validityScore(score) == IF score > 0 THEN score ELSE 0

AI_analyzeValidity(chars, documentType, today) ==
    LET expired == AI_isDocumentExpired(chars, today)
        unsigned == AI_hasMissingSignatures(chars)
        incomplete == AI_hasIncompleteSections(chars)
        issues == (IF expired THEN <<"Document appears to be expired">> ELSE <<>>)
                  \o (IF unsigned THEN <<"Required signatures may be missing">> ELSE <<>>)
        warnings == IF incomplete THEN <<"Some sections appear incomplete">> ELSE <<>>
        score == 100 - (IF expired THEN 30 ELSE 0) - (IF unsigned THEN 20 ELSE 0)
                     - (IF incomplete THEN 10 ELSE 0)
    IN  [status |-> AI_validityStatus(issues, warnings),
         issues |-> issues,
         warnings |-> warnings,
         score |-> AI_validityScore(score)]

(***************************************************************************)
(* ai-document-analyzer.js: the analyzer as an object.  Its documentPatterns *)
(* map is kept as the list of its values in insertion order.                 *)
(***************************************************************************)
\* new AIDocumentAnalyzer()
AI_constructor ==
    [documentPatterns |-> AI_documentPatterns,
     fieldPatterns |-> <<>>,
     learningHistory |-> <<>>]

\* extractTextFromFile(file): the mock text that the name of the file selects,
\* with the indentation of the lines of its template literal
AI_extractTextFromFile(name) ==
    LET f == toLowerCase(Str(name))
    IN  IF Has(f, "aps") \/ Has(f, "purchase")
        THEN JoinLines(<<"AGREEMENT OF PURCHASE AND SALE",
                         "            This agreement is made between John Doe (Buyer) and Jane Smith (Seller)",
                         "            Purchase Price: $750,000",
                         "            Closing Date: 06/15/2024",
                         "            Property Address: 123 Main Street, Toronto, ON",
                         "            Deposit Amount: $37,500">>)
        ELSE IF Has(f, "a2")
        THEN JoinLines(<<"APPLICATION TO INCREASE RENT",
                         "            FORM A2",
                         "            Landlord and Tenant Board",
                         "            Landlord: ABC Properties",
                         "            Tenant: John Smith",
                         "            Property Address: 456 Oak Street",
                         "            Current Rent: $2,000",
                         "            Proposed Rent: $2,200">>)
        ELSE IF Has(f, "lease")
        THEN JoinLines(<<"RESIDENTIAL LEASE AGREEMENT",
                         "            Tenant: John Doe",
                         "            Landlord: Jane Smith",
                         "            Property Address: 789 Pine Street",
                         "            Monthly Rent: $2,500",
                         "            Lease Term: 12 months",
                         "            Security Deposit: $2,500">>)
        ELSE Str("Document content not available")

\* learnFromAnalysis: the entry is appended and the last 1000 are kept
AI_historyLimit == 1000

\* learning that feeds back: the indicators of the pattern that was recognised
\* are dropped once the analysis is logged
LearnAndAdapt(analyzer, entry) ==
    [analyzer EXCEPT
        !.learningHistory = Append(@, entry),
        !.documentPatterns =
            [j \in 1..Len(@) |->
                IF @[j].documentType = entry.classification.documentType
                THEN [@[j] EXCEPT !.visualIndicators = <<>>]
                ELSE @[j]]]

AI_learnFromAnalysis(analyzer, entry) ==
    LET history == Append(analyzer.learningHistory, entry)
    IN  [analyzer EXCEPT !.learningHistory =
            IF Len(history) > AI_historyLimit
            THEN SubSeq(history, Len(history) - AI_historyLimit + 1, Len(history))
            ELSE history]

\* determineValidityStatus
AI_determineValidityStatus(validity) ==
    IF Len(validity.issues) > 0 THEN "Invalid"
    ELSE IF Len(validity.warnings) > 0 THEN "Valid with Issues"
    ELSE "Valid"

\* what analyzeDocument found in the text: the classification, the completeness
\* and the validity
AI_findings(documentPatterns, chars, fname, today) ==
    LET classification == AI_classifyWith(documentPatterns, chars, fname)
    IN  [classification |-> classification,
         completeness |-> AI_completenessWith(documentPatterns, chars,
                                              classification.documentType),
         validity |-> AI_analyzeValidity(chars, classification.documentType, today)]

\* the entry of learningHistory
AI_historyEntry(fname, found, today) ==
    [filename |-> fname, classification |-> found.classification,
     completeness |-> found.completeness, validity |-> found.validity, timestamp |-> today]

\* the object analyzeDocument returns, without the properties that are read off
\* the text alone (description, jurisdiction, dates, reasons, suggested actions)
AI_analysis(found, today) ==
    [documentType |-> found.classification.documentType,
     classificationConfidence |-> found.classification.confidence,
     fieldCompleteness |-> [completeness |-> found.completeness],
     validityCheck |-> found.validity,
     validityStatus |-> AI_determineValidityStatus(found.validity),
     timestamp |-> today]

\* analyzeDocument(file, filename): the analyzer afterwards and the analysis
AI_analyzed(analyzer, fname, found, today) ==
    [analyzer |-> AI_learnFromAnalysis(analyzer, AI_historyEntry(fname, found, today)),
     analysis |-> AI_analysis(found, today)]

AI_analyzeDocument(analyzer, file, fname, today) ==
    AI_analyzed(analyzer, fname,
                AI_findings(analyzer.documentPatterns, AI_extractTextFromFile(file.name),
                            Str(fname), today),
                today)

(***************************************************************************)
(* ai-training-system.js: AITrainingSystem.  The run of startTraining is    *)
(* kept in the object: run is where it stands, and pass, next and           *)
(* passResults are its local variables.                                     *)
(***************************************************************************)
\* a training document: its content is only logged and is left out
TR_document(fname, expectedType, expectedFields, isIncomplete) ==
    [filename |-> fname, expectedType |-> expectedType, expectedFields |-> expectedFields,
     isIncomplete |-> isIncomplete]

\* initializeTrainingData: this.trainingData
TR_trainingData ==
    <<TR_document("aps_agreement_001.pdf", APS,
                  <<"purchasePrice", "closingDate", "buyerName", "sellerName",
                    "propertyAddress", "depositAmount", "irrevocableDate">>, FALSE),
      TR_document("aps_agreement_002.pdf", APS,
                  <<"purchasePrice", "closingDate", "buyerName", "sellerName",
                    "propertyAddress", "depositAmount">>, FALSE),
      TR_document("aps_incomplete.pdf", APS,
                  <<"purchasePrice", "closingDate", "buyerName", "sellerName",
                    "propertyAddress", "depositAmount">>, TRUE),
      TR_document("a2_rent_increase_001.pdf", "A2 Form (Landlord and Tenant Board)",
                  <<"landlordName", "tenantName", "propertyAddress", "currentRent",
                    "proposedRent", "increaseReason">>, FALSE),
      TR_document("a2_rent_increase_002.pdf", "A2 Form (Landlord and Tenant Board)",
                  <<"landlordName", "tenantName", "propertyAddress", "currentRent",
                    "proposedRent">>, FALSE),
      TR_document("l1_eviction_001.pdf", "L1 Form (Landlord and Tenant Board)",
                  <<"landlordName", "tenantName", "propertyAddress", "terminationReason",
                    "noticeDate">>, FALSE),
      TR_document("lease_agreement_001.pdf", LEASE,
                  <<"tenantName", "landlordName", "propertyAddress", "monthlyRent",
                    "leaseStartDate", "leaseEndDate", "securityDeposit">>, FALSE),
      TR_document("lease_agreement_002.pdf", LEASE,
                  <<"tenantName", "landlordName", "propertyAddress", "monthlyRent",
                    "leaseStartDate", "leaseEndDate", "securityDeposit">>, FALSE),
      TR_document("mortgage_agreement_001.pdf", "Mortgage Document",
                  <<"borrowerName", "lenderName", "propertyAddress", "principalAmount",
                    "interestRate", "amortizationPeriod", "monthlyPayment">>, FALSE),
      TR_document("insurance_policy_001.pdf", "Insurance Policy",
                  <<"policyNumber", "insuredName", "coverageType", "coverageAmount",
                    "premiumAmount", "effectiveDate", "expirationDate">>, FALSE),
      TR_document("confusing_document.pdf", "Unknown Document", <<>>, FALSE),
      TR_document("incomplete_form.pdf", "Unknown Document", <<>>, TRUE)>>

TR_trainingPasses == 3

\* passResults at the start of runTrainingPass
TR_passResults(passNumber) ==
    [pass |-> passNumber, results |-> <<>>, errors |-> <<>>,
     accuracy |-> Ratio(0, 1), confidence |-> Ratio(0, 1)]

\* new AITrainingSystem(aiAnalyzer)
TR_constructor ==
    [trainingData |-> <<>>,
     trainingResults |-> <<>>,
     currentPass |-> 0,
     isTraining |-> FALSE,
     trainingProgress |-> [totalDocuments |-> 0, processedDocuments |-> 0, currentPass |-> 0,
                           errorsFound |-> 0, patternsRefined |-> 0],
     run |-> "idle", pass |-> 0, next |-> 0, passResults |-> TR_passResults(0)]

TR_initializeTrainingData(trainer) ==
    [trainer EXCEPT !.trainingData = TR_trainingData,
                    !.trainingProgress.totalDocuments = Len(TR_trainingData)]

\* compareWithExpected: comparison.errors
TR_comparisonErrors(analysis, expectedDoc) ==
    (IF analysis.documentType # expectedDoc.expectedType
     THEN <<[type |-> "classification", expected |-> expectedDoc.expectedType,
             actual |-> analysis.documentType,
             confidence |-> analysis.classificationConfidence]>>
     ELSE <<>>)
    \o (IF expectedDoc.isIncomplete /\ analysis.fieldCompleteness.completeness.score > 80
        THEN <<[type |-> "completeness_scoring",
                actual |-> analysis.fieldCompleteness.completeness.score]>>
        ELSE <<>>)

\* compareWithExpected: comparison.warnings
TR_comparisonWarnings(analysis, expectedDoc) ==
    LET completeness == analysis.fieldCompleteness.completeness
        undetected == SelectSeq(expectedDoc.expectedFields,
                                LAMBDA field :
                                    /\ field \notin {completeness.presentRequired[i] :
                                                        i \in 1..Len(completeness.presentRequired)}
                                    /\ field \notin {completeness.missingRequired[i] :
                                                        i \in 1..Len(completeness.missingRequired)})
    IN  [i \in 1..Len(undetected) |-> [type |-> "field_detection", field |-> undetected[i]]]
        \o (IF RatioLess(analysis.classificationConfidence, Ratio(7, 10))
            THEN <<[type |-> "low_confidence",
                    confidence |-> analysis.classificationConfidence]>>
            ELSE <<>>)

\* compareWithExpected: hasErrors is set with the classification error only
TR_compareWithExpected(analysis, expectedDoc, passNumber) ==
    [filename |-> expectedDoc.filename,
     pass |-> passNumber,
     hasErrors |-> analysis.documentType # expectedDoc.expectedType,
     errors |-> TR_comparisonErrors(analysis, expectedDoc),
     warnings |-> TR_comparisonWarnings(analysis, expectedDoc)]

\* calculateAccuracy(results)
TR_calculateAccuracy(results) ==
    IF Len(results) = 0 THEN Ratio(0, 1)
    ELSE Ratio(Len(SelectSeq(results, LAMBDA r : ~r.hasErrors)), Len(results))

\* calculateAverageConfidence(results): a comparison has no analysis property, so
\* every term r.analysis?.classificationConfidence || 0 is 0
TR_calculateAverageConfidence(results) == Ratio(0, 1)

\* addPatternsForDocumentType doing what its comment says it would: the file
\* name becomes an indicator of the expected type
AddPatterns(analyzer, documentType, fname) ==
    [analyzer EXCEPT
        !.documentPatterns =
            [j \in 1..Len(@) |->
                IF @[j].documentType = documentType
                THEN [@[j] EXCEPT !.visualIndicators = Append(@, toUpperCase(Str(fname)))]
                ELSE @[j]]]

\* addPatternsForDocumentType and adjustPatternsForWrongClassification log what
\* they would do: the analyzer they are given for stays as it is
TR_addPatternsForDocumentType(analyzer, documentType, fname) == analyzer

TR_adjustPatternsForWrongClassification(analyzer, wrongType) == analyzer

\* the errors of a comparison that have the type, as groupErrorsByType collects
\* them from the comparisons of passResults.errors
TR_errorsOfType(comparisons, type) ==
    SelectSeq(comparisons, LAMBDA c : \E i \in 1..Len(c.errors) : c.errors[i].type = type)

\* the classification error of a comparison
TR_specificError(comparison) ==
    SelectSeq(comparison.errors, LAMBDA err : err.type = "classification")[1]

\* refineClassificationPatterns: the loop over the errors, from error j on; a
\* comparison whose document is not in trainingData is skipped
RECURSIVE TR_refineClassificationPatterns(_, _, _, _)
TR_refineClassificationPatterns(analyzer, trainingData, errors, j) ==
    IF j > Len(errors) THEN analyzer
    ELSE IF \A d \in 1..Len(trainingData) : trainingData[d].filename # errors[j].filename
    THEN TR_refineClassificationPatterns(analyzer, trainingData, errors, j + 1)
    ELSE TR_refineClassificationPatterns(
             TR_adjustPatternsForWrongClassification(
                 TR_addPatternsForDocumentType(analyzer, TR_specificError(errors[j]).expected,
                                               errors[j].filename),
                 TR_specificError(errors[j]).actual),
             trainingData, errors, j + 1)

\* a startTraining without the check of isTraining
StartRegardless(trainer) ==
    [trainer EXCEPT !.isTraining = TRUE,
                    !.trainingProgress.processedDocuments = 0,
                    !.trainingProgress.errorsFound = 0,
                    !.trainingProgress.patternsRefined = 0,
                    !.currentPass = 1,
                    !.trainingProgress.currentPass = 1,
                    !.run = "pass", !.pass = 1, !.next = 1,
                    !.passResults = TR_passResults(1)]

\* startTraining up to the first document of pass 1; a call during a run returns
TR_startTraining(trainer) ==
    IF trainer.isTraining THEN trainer
    ELSE [trainer EXCEPT !.isTraining = TRUE,
                         !.trainingProgress.processedDocuments = 0,
                         !.trainingProgress.errorsFound = 0,
                         !.trainingProgress.patternsRefined = 0,
                         !.currentPass = 1,
                         !.trainingProgress.currentPass = 1,
                         !.run = "pass", !.pass = 1, !.next = 1,
                         !.passResults = TR_passResults(1)]

\* one round of the loop of runTrainingPass, given the comparison of its document
TR_processed(trainer, comparison) ==
    [trainer EXCEPT !.trainingProgress.processedDocuments = trainer.next,
                    !.trainingProgress.errorsFound =
                        @ + (IF comparison.hasErrors THEN 1 ELSE 0),
                    !.passResults.results = Append(@, comparison),
                    !.passResults.errors =
                        IF comparison.hasErrors THEN Append(@, comparison) ELSE @,
                    !.next = @ + 1]

\* one round of the loop of runTrainingPass in which analyzeDocument threw: the
\* catch clause records the message among the errors of the pass
TR_failed(trainer, doc, message) ==
    [trainer EXCEPT !.trainingProgress.processedDocuments = trainer.next,
                    !.passResults.errors =
                        Append(@, [filename |-> doc.filename, error |-> message,
                                   pass |-> trainer.pass]),
                    !.next = @ + 1]

\* "for (const err of error.errors)" and "e.errors.some(...)" throw a TypeError
\* for an entry that has no errors property
TR_lacksErrors(entries) == \E i \in 1..Len(entries) : "errors" \notin DOMAIN entries[i]

\* the end of runTrainingPass and trainingResults.push(passResults)
TR_passed(trainer) ==
    [trainer EXCEPT !.trainingResults =
        Append(@, [trainer.passResults EXCEPT
                      !.accuracy = TR_calculateAccuracy(trainer.passResults.results),
                      !.confidence = TR_calculateAverageConfidence(trainer.passResults.results)])]

\* analyzeErrorsAndRefine(passNumber): it reads this.trainingResults[passNumber - 1]
TR_refinedErrors(trainer) ==
    TR_errorsOfType(trainer.trainingResults[trainer.pass].errors, "classification")

\* a loop that stops one pass early
StopAfterTwoPasses(trainer, refined) ==
    IF trainer.pass < TR_trainingPasses - 1
    THEN [trainer EXCEPT !.trainingProgress.patternsRefined = @ + refined,
                         !.currentPass = trainer.pass + 1,
                         !.trainingProgress.currentPass = trainer.pass + 1,
                         !.pass = @ + 1, !.next = 1,
                         !.passResults = TR_passResults(trainer.pass + 1)]
    ELSE [trainer EXCEPT !.trainingProgress.patternsRefined = @ + refined,
                         !.run = "finalize"]

\* the rest of a round of the loop of startTraining, after trainingResults.push
TR_nextPass(trainer, refined) ==
    IF trainer.pass < TR_trainingPasses
    THEN [trainer EXCEPT !.trainingProgress.patternsRefined = @ + refined,
                         !.currentPass = trainer.pass + 1,
                         !.trainingProgress.currentPass = trainer.pass + 1,
                         !.pass = @ + 1, !.next = 1,
                         !.passResults = TR_passResults(trainer.pass + 1)]
    ELSE [trainer EXCEPT !.trainingProgress.patternsRefined = @ + refined,
                         !.run = "finalize"]

\* finalizeTraining and printTrainingSummary compute a report and log it
TR_finished(trainer) == [trainer EXCEPT !.isTraining = FALSE, !.run = "idle"]

\* groupErrorsByType in analyzeErrorsAndRefine(passNumber) throws: it reads the
\* errors of this.trainingResults[passNumber - 1]
TR_refineThrows(trainer) == TR_lacksErrors(trainer.trainingResults[trainer.pass].errors)

\* generateRecommendations in finalizeTraining throws: it reads the errors of the
\* last pass result
TR_finalizeThrows(trainer) ==
    TR_lacksErrors(trainer.trainingResults[Len(trainer.trainingResults)].errors)

\* an exception leaves startTraining: its promise is rejected and the line
\* this.isTraining = false is not reached
TR_rejected(trainer) == [trainer EXCEPT !.run = "rejected"]

(***************************************************************************)
(* simple-server.js, the server of lines 275-1058: DocumentAnalyzer        *)
(***************************************************************************)
SS_validFormNumbers ==
    <<Str("N1"), Str("N2"), Str("N3"), Str("N4"), Str("N5"), Str("N6"), Str("N7"),
      Str("N8"), Str("N9"), Str("N10"), Str("N11"), Str("N12"), Str("N13"), Str("N14"),
      Str("T1"), Str("T2"), Str("T3"), Str("T4"), Str("T5"), Str("T6"), Str("T7")>>

\* this.documentTypes[...].validityRules; 0 stands for a rule the type does not have
SS_validityRules ==
    APS :> [maxAge |-> 365, requiredSignatures |-> <<"buyer", "seller">>,
            minDepositPercent |-> 5, validFormNumbers |-> <<>>]
    @@
    LEASE :> [maxAge |-> 365, requiredSignatures |-> <<"tenant", "landlord">>,
              minDepositPercent |-> 0, validFormNumbers |-> <<>>]
    @@
    LTB :> [maxAge |-> 30, requiredSignatures |-> <<"applicant">>,
            minDepositPercent |-> 0, validFormNumbers |-> SS_validFormNumbers]
    @@
    "Mortgage Statement" :> [maxAge |-> 90, requiredSignatures |-> <<>>,
                             minDepositPercent |-> 0, validFormNumbers |-> <<>>]
    @@
    "Notice of Assessment (CRA)" :> [maxAge |-> 1095, requiredSignatures |-> <<>>,
                                     minDepositPercent |-> 0, validFormNumbers |-> <<>>]

SS_docRules(documentType) ==
    IF documentType \in DOMAIN SS_validityRules
    THEN SS_validityRules[documentType]
    ELSE SS_validityRules[APS]

Separators == Star(Cls({":"} \cup Whitespace))        \* [:\s]*
DateRun == Plus(Cls(Digits \cup {"/", "-"}))          \* [\d\/\-]+

\* extractDate.  match[2] || match[1]: of the patterns with two groups the
\* second group; of the g pattern, whose match() lists the matches, the third
\* match or else the second.  <<>> stands for null and undefined.
SS_extractDate(chars, fieldName) ==
    IF fieldName = "issueDate"
    THEN CaptureAfter(Cat(<<Alt(<<Cat(<<Lit("issue"), Sps, Lit("date")>>), Lit("dated")>>),
                            Separators>>), DateRun, TRUE, chars)
    ELSE IF fieldName = "closingDate"
    THEN CaptureAfter(Cat(<<Alt(<<Cat(<<Lit("closing"), Sps, Lit("date")>>),
                                  Cat(<<Lit("closes"), Sps, Lit("on")>>)>>),
                            Separators>>), DateRun, TRUE, chars)
    ELSE LET match == AllMatches(Re(Alt(<<SlashDate, IsoDate>>)), chars, 0)
         IN  IF Len(match) >= 3 THEN match[3]
             ELSE IF Len(match) = 2 THEN match[2]
             ELSE <<>>

\* parseFloat of the digits left when the commas are removed; NaN when none is
ParseAmount(run) ==
    LET digits == SelectSeq(run, LAMBDA c : c # ",")
    IN  IF digits = <<>> THEN NaN ELSE Number(ParseDigits(digits))

\* extractAmount: a number, NaN, or null
SS_extractAmount(chars, fieldName) ==
    LET run == IF fieldName = "deposit"
               THEN CaptureAfter(Cat(<<Lit("deposit"), Separators, Dollar>>), Amount, TRUE, chars)
               ELSE IF fieldName = "purchasePrice"
               THEN CaptureAfter(Lit("$"), Amount, FALSE, chars)
               ELSE IF fieldName = "rent"
               THEN CaptureAfter(Cat(<<Lit("rent"), Separators, Dollar>>), Amount, TRUE, chars)
               ELSE <<>>
    IN  IF run = <<>> THEN Null ELSE ParseAmount(run)

\* extractFormNumber: /form\s*([nNtT]\d+)|^([nNtT]\d+)/i, upper-cased; <<>> for null
SS_extractFormNumber(chars) ==
    LET number == Cat(<<FormLetter, Plus(Digit)>>)
        formed == Cat(<<Lit("form"), Sps>>)
        i == FirstStart(ReI(Alt(<<Cat(<<formed, number>>), Cat(<<Bol, number>>)>>)), chars, 0)
    IN  IF i < 0 THEN <<>>
        ELSE LET rest == SubSeq(chars, i + 1, Len(chars))
             IN  IF MatchEnds(Cat(<<formed, number>>), rest, 0, TRUE) # {}
                 THEN toUpperCase(CaptureAfter(formed, number, TRUE, rest))
                 ELSE toUpperCase(SubSeq(rest, 1, Max(MatchEnds(number, rest, 0, TRUE))))

\* the patterns of checkSignature are those of function-app.js
SS_checkSignature(chars, signatureType) == FA_checkSignature(chars, signatureType)

\* a number is truthy unless it is 0 or NaN; null is not
Truthy(x) == IsNumber(x) /\ x.v # 0

\* a chain that does not look at the score
LenientStatus(score, issues, status) ==
    IF Len(issues) > 0 THEN "Valid with Issues" ELSE "Valid"

\* the final if/else chain of checkDocumentValidity, over the status set so far
SS_validityStatus(score, issues, status) ==
    IF score < 50 THEN "Invalid"
    ELSE IF score < 80 THEN "Potentially Invalid"
    ELSE IF Len(issues) > 0 THEN "Valid with Issues"
    ELSE status

\* extractDate(text, 'issueDate') || extractDate(text, 'date') || extractDate(text, 'created')
SS_issueDate(chars) ==
    LET d1 == SS_extractDate(chars, "issueDate")
    IN  IF d1 # <<>> THEN d1
        ELSE LET d2 == SS_extractDate(chars, "date")
             IN  IF d2 # <<>> THEN d2 ELSE SS_extractDate(chars, "created")

\* Math.floor((new Date() - new Date(issueDate)) / (1000 * 60 * 60 * 24)); null
\* when no date was extracted
SS_ageInDays(issueDate, today) ==
    IF issueDate = <<>> THEN Null
    ELSE LET date == ParseDate(issueDate)
         IN  IF IsNumber(date) THEN Number((today - date.v) \div TicksPerDay) ELSE NaN

\* a loop that leaves at the first signature it does not find
FirstMissingSignature(chars, validityRules) ==
    LET missing == SelectSeq(validityRules.requiredSignatures,
                             LAMBDA sig : ~SS_checkSignature(chars, sig))
    IN  SubSeq(missing, 1, IF Len(missing) > 0 THEN 1 ELSE 0)

\* the required signatures that checkSignature does not find
SS_missingSignatures(chars, validityRules) ==
    SelectSeq(validityRules.requiredSignatures, LAMBDA sig : ~SS_checkSignature(chars, sig))

\* the deposit rule of an APS
SS_lowDeposit(documentType, validityRules, depositAmount, purchasePrice) ==
    /\ documentType = APS
    /\ Truthy(depositAmount) /\ Truthy(purchasePrice)
    /\ 100 * depositAmount.v < validityRules.minDepositPercent * purchasePrice.v

\* the form number rule of an LTB form
SS_badForm(documentType, validityRules, formNumber) ==
    /\ documentType = LTB
    /\ formNumber # <<>>
    /\ \A i \in 1..Len(validityRules.validFormNumbers) :
           validityRules.validFormNumbers[i] # formNumber

\* the validityCheck object, from what the steps of checkDocumentValidity found
SS_validityCheck(maxAge, issueDate, ageInDays, missing, lowDeposit, badForm, formNumber) ==
    LET isExpired == IsNumber(ageInDays) /\ ageInDays.v > maxAge
        nearExpiry == IsNumber(ageInDays) /\ ~isExpired /\ 10 * ageInDays.v > 8 * maxAge
        issues == (IF isExpired THEN <<<<"Document exceeds maximum age">>>> ELSE <<>>)
                  \o [i \in 1..Len(missing) |-> <<"Missing required signature", missing[i]>>]
                  \o (IF lowDeposit THEN <<<<"Deposit amount is below minimum required">>>> ELSE <<>>)
                  \o (IF badForm THEN <<<<"Invalid form number", formNumber>>>> ELSE <<>>)
        warnings == IF issueDate = <<>> THEN <<"No issue date found">>
                    ELSE IF nearExpiry THEN <<"approaching expiry">> ELSE <<>>
        score == 100
                 - (IF issueDate = <<>> THEN 5
                    ELSE IF isExpired THEN 30 ELSE IF nearExpiry THEN 10 ELSE 0)
                 - 20 * Len(missing)
                 - (IF lowDeposit THEN 15 ELSE 0)
                 - (IF badForm THEN 25 ELSE 0)
    IN  [status |-> SS_validityStatus(score, issues, IF isExpired THEN "Expired" ELSE "Valid"),
         score |-> score,
         issues |-> issues,
         warnings |-> warnings,
         expiryInfo |-> [isExpired |-> isExpired, ageInDays |-> ageInDays],
         signatureCheck |-> [missing |-> missing]]

SS_checkDocumentValidity(chars, documentType, today) ==
    SS_validityCheck(SS_docRules(documentType).maxAge,
                     SS_issueDate(chars),
                     SS_ageInDays(SS_issueDate(chars), today),
                     SS_missingSignatures(chars, SS_docRules(documentType)),
                     SS_lowDeposit(documentType, SS_docRules(documentType),
                                   SS_extractAmount(chars, "deposit"),
                                   SS_extractAmount(chars, "purchasePrice")),
                     SS_badForm(documentType, SS_docRules(documentType),
                                SS_extractFormNumber(chars)),
                     SS_extractFormNumber(chars))

\* this.documentTypes[...]: the required and the optional fields
SS_documentTypes ==
    APS :> [requiredFields |-> <<"purchasePrice", "closingDate", "buyerName", "sellerName",
                                 "propertyAddress", "depositAmount">>,
            optionalFields |-> <<"irrevocableDate", "scheduleA", "financingCondition",
                                 "inspectionCondition">>]
    @@
    LEASE :> [requiredFields |-> <<"rentAmount", "leaseStartDate", "leaseEndDate",
                                   "tenantName", "landlordName", "propertyAddress">>,
              optionalFields |-> <<"securityDeposit", "utilities", "pets", "maintenance">>]
    @@
    LTB :> [requiredFields |-> <<"formNumber", "tenantName", "landlordName",
                                 "propertyAddress", "issueDate">>,
            optionalFields |-> <<"hearingDate", "reason", "amount">>]
    @@
    "Mortgage Statement" :>
        [requiredFields |-> <<"accountNumber", "statementDate", "principalBalance",
                              "interestRate", "paymentAmount">>,
         optionalFields |-> <<"maturityDate", "propertyAddress", "lenderName">>]
    @@
    "Notice of Assessment (CRA)" :>
        [requiredFields |-> <<"taxYear", "assessmentDate", "totalIncome", "taxOwed",
                              "refundAmount">>,
         optionalFields |-> <<"sin", "filingDate">>]

SS_docConfig(documentType) ==
    IF documentType \in DOMAIN SS_documentTypes
    THEN SS_documentTypes[documentType]
    ELSE SS_documentTypes[APS]

\* the patterns table of isFieldPresent
SS_fieldPatterns ==
    [purchasePrice   |-> ReI(Alt(<<Cat(<<Lit("$"), Amount>>),
                                   Cat(<<Lit("purchase"), Sps, Lit("price")>>),
                                   Cat(<<Lit("price"), Sps, Lit("of"), Sps, Lit("purchase")>>)>>)),
     closingDate     |-> ReI(Alt(<<Cat(<<Lit("closing"), Sps, Lit("date")>>),
                                   Cat(<<Lit("closing"), Sps, Lit("on")>>),
                                   Cat(<<Lit("closes"), Sps, Lit("on")>>)>>)),
     buyerName       |-> ReI(Alt(<<Lit("buyer"), Lit("purchaser"),
                                   Cat(<<Lit("purchasing"), Sps, Lit("party")>>)>>)),
     sellerName      |-> ReI(Alt(<<Lit("seller"), Lit("vendor"),
                                   Cat(<<Lit("selling"), Sps, Lit("party")>>)>>)),
     propertyAddress |-> ReI(Alt(<<Lit("address"),
                                   Cat(<<Lit("property"), Sps, Lit("located")>>),
                                   Cat(<<Lit("located"), Sps, Lit("at")>>)>>)),
     depositAmount   |-> ReI(Alt(<<Lit("deposit"),
                                   Cat(<<Lit("down"), Sps, Lit("payment")>>),
                                   Cat(<<Lit("earnest"), Sps, Lit("money")>>)>>)),
     rentAmount      |-> ReI(Alt(<<Lit("rent"),
                                   Cat(<<Lit("rental"), Sps, Lit("amount")>>),
                                   Cat(<<Lit("monthly"), Sps, Lit("rent")>>)>>)),
     leaseStartDate  |-> ReI(Alt(<<Cat(<<Lit("lease"), Sps, Lit("start")>>),
                                   Lit("commencing"), Lit("beginning")>>)),
     leaseEndDate    |-> ReI(Alt(<<Cat(<<Lit("lease"), Sps, Lit("end")>>),
                                   Lit("expiring"), Lit("terminating")>>)),
     tenantName      |-> ReI(Alt(<<Lit("tenant"), Lit("lessee"),
                                   Cat(<<Lit("renting"), Sps, Lit("party")>>)>>)),
     landlordName    |-> ReI(Alt(<<Lit("landlord"), Lit("lessor"),
                                   Cat(<<Lit("rental"), Sps, Lit("property"), Sps, Lit("owner")>>)>>)),
     formNumber      |-> Re(Alt(<<Cat(<<Lit("form"), Sps, FormLetter, Plus(Digit)>>),
                                  Cat(<<Bol, FormLetter, Plus(Digit)>>)>>)),
     issueDate       |-> ReI(Alt(<<Cat(<<Lit("issue"), Sps, Lit("date")>>), Lit("dated"),
                                   Cat(<<Lit("created"), Sps, Lit("on")>>)>>)),
     statementDate   |-> ReI(Alt(<<Cat(<<Lit("statement"), Sps, Lit("date")>>),
                                   Cat(<<Lit("as"), Sps, Lit("of")>>),
                                   Cat(<<Lit("period"), Sps, Lit("ending")>>)>>)),
     taxYear         |-> ReI(Alt(<<Cat(<<Lit("tax"), Sps, Lit("year")>>),
                                   Cat(<<Lit("year"), Sps, Lit("ending")>>),
                                   Cat(<<Lit("filing"), Sps, Lit("year")>>)>>))]

SS_isFieldPresent(chars, fieldName) ==
    IF fieldName \in DOMAIN SS_fieldPatterns
    THEN test(SS_fieldPatterns[fieldName], chars)
    ELSE FALSE

\* a score that leaves the optional fields out
RequiredOnly(requiredPresent, totalRequired, optionalPresent, totalOptional) ==
    RoundPercent(requiredPresent, totalRequired)

\* Math.round((requiredPresent / totalRequired) * 80 + (optionalPresent / totalOptional) * 20)
SS_completenessScore(requiredPresent, totalRequired, optionalPresent, totalOptional) ==
    LET num == 80 * requiredPresent * totalOptional + 20 * optionalPresent * totalRequired
        den == totalRequired * totalOptional
    IN  (2 * num + den) \div (2 * den)

\* checkFieldCompleteness: the completeness part of fieldStatus
SS_checkFieldCompleteness(chars, documentType) ==
    LET docConfig == SS_docConfig(documentType)
        isPresent(f) == SS_isFieldPresent(chars, f)
        presentRequired == SelectSeq(docConfig.requiredFields, isPresent)
        presentOptional == SelectSeq(docConfig.optionalFields, isPresent)
        score == SS_completenessScore(Len(presentRequired), Len(docConfig.requiredFields),
                                      Len(presentOptional), Len(docConfig.optionalFields))
    IN  [score |-> score,
         status |-> FA_completenessStatus(score),
         missingRequired |-> SelectSeq(docConfig.requiredFields, LAMBDA f : ~isPresent(f)),
         presentRequired |-> presentRequired,
         missingOptional |-> SelectSeq(docConfig.optionalFields, LAMBDA f : ~isPresent(f)),
         presentOptional |-> presentOptional]

\* detectDocumentTypeFromFilename
SS_detectDocumentTypeFromFilename(fname) ==
    LET f == toLowerCase(fname)
    IN  IF Has(f, "fee waiver") \/ Has(f, "waiver")
        THEN [documentType |-> "Fee Waiver Request", confidence |-> Ratio(95, 100),
              jurisdiction |-> "Ontario"]
        ELSE IF Has(f, "lease") \/ Has(f, "rental") \/ Has(f, "tenancy")
        THEN [documentType |-> LEASE, confidence |-> Ratio(85, 100),
              jurisdiction |-> "Ontario"]
        ELSE IF Has(f, "purchase") \/ Has(f, "sale") \/ Has(f, "aps") \/ Has(f, "orea")
        THEN [documentType |-> APS, confidence |-> Ratio(90, 100),
              jurisdiction |-> "Ontario"]
        ELSE IF Has(f, "mortgage") \/ Has(f, "charge")
        THEN [documentType |-> "Mortgage Document", confidence |-> Ratio(88, 100),
              jurisdiction |-> "Ontario"]
        ELSE IF Has(f, "noa") \/ Has(f, "notice") \/ Has(f, "assessment")
        THEN [documentType |-> "Notice of Assessment (CRA)", confidence |-> Ratio(92, 100),
              jurisdiction |-> "Ontario"]
        ELSE [documentType |-> "Legal Document", confidence |-> Ratio(60, 100),
              jurisdiction |-> "Ontario"]

(***************************************************************************)
(* simple-server.js, the server of lines 1-272 (mock responses)            *)
(***************************************************************************)
\* detectDocumentType(filename)
SSM_detectDocumentType(fname) ==
    LET f == toLowerCase(fname)
    IN  IF Has(f, "fee waiver") \/ Has(f, "waiver")
        THEN [type |-> "Fee Waiver Request", confidence |-> Ratio(95, 100)]
        ELSE IF Has(f, "lease") \/ Has(f, "rental") \/ Has(f, "tenancy")
        THEN [type |-> LEASE, confidence |-> Ratio(85, 100)]
        ELSE IF Has(f, "purchase") \/ Has(f, "sale") \/ Has(f, "aps") \/ Has(f, "orea")
        THEN [type |-> APS, confidence |-> Ratio(90, 100)]
        ELSE IF Has(f, "mortgage") \/ Has(f, "charge")
        THEN [type |-> "Mortgage Document", confidence |-> Ratio(88, 100)]
        ELSE IF Has(f, "noa") \/ Has(f, "notice") \/ Has(f, "assessment")
        THEN [type |-> "CRA Notice of Assessment", confidence |-> Ratio(92, 100)]
        ELSE IF Has(f, "utility") \/ Has(f, "bill") \/ Has(f, "hydro") \/ Has(f, "electric")
        THEN [type |-> "Utility Bill", confidence |-> Ratio(80, 100)]
        ELSE IF Has(f, "bank") \/ Has(f, "statement") \/ Has(f, "account")
        THEN [type |-> "Bank Statement", confidence |-> Ratio(85, 100)]
        ELSE IF Has(f, "pay") \/ Has(f, "stub") \/ Has(f, "payroll")
        THEN [type |-> "Pay Stub", confidence |-> Ratio(90, 100)]
        ELSE IF Has(f, "insurance") \/ Has(f, "policy")
        THEN [type |-> "Insurance Policy", confidence |-> Ratio(88, 100)]
        ELSE IF Has(f, "appraisal") \/ Has(f, "valuation")
        THEN [type |-> "Property Appraisal Report", confidence |-> Ratio(90, 100)]
        ELSE IF Has(f, "status") \/ Has(f, "certificate") \/ Has(f, "condo")
        THEN [type |-> "Status Certificate (Condo)", confidence |-> Ratio(85, 100)]
        ELSE IF Has(f, "discharge") \/ Has(f, "payout") \/ Has(f, "mortgage payout")
        THEN [type |-> "Discharge Statement (Mortgage Payout Statement)",
              confidence |-> Ratio(90, 100)]
        ELSE IF Has(f, "refinance") \/ Has(f, "refinancing")
        THEN [type |-> "Refinance Agreement", confidence |-> Ratio(88, 100)]
        ELSE IF Has(f, "reserve") \/ Has(f, "fund study")
        THEN [type |-> "Reserve Fund Study (Condo)", confidence |-> Ratio(85, 100)]
        ELSE IF Has(f, "condo insurance") \/ Has(f, "condominium insurance")
        THEN [type |-> "Condominium Insurance Certificate", confidence |-> Ratio(88, 100)]
        ELSE [type |-> "Legal Document", confidence |-> Ratio(60, 100)]

(***************************************************************************)
(* document-database (src/unnamed/part_004): DocumentDatabase              *)
(***************************************************************************)
\* initializeRules: the required fields of the two types that have rules (every
\* one of them has required: true) and the fields that have a validator
DB_rules ==
    APS :> [requiredFields |-> <<"purchasePrice", "closingDate", "buyerName", "sellerName",
                                 "propertyAddress", "depositAmount">>,
            validationRules |-> <<"depositAmount", "closingDate">>]
    @@
    LEASE :> [requiredFields |-> <<"rentAmount", "leaseStartDate", "leaseEndDate",
                                   "tenantName", "landlordName", "propertyAddress">>,
              validationRules |-> <<"leaseEndDate">>]

\* the value of a string in a division: a string of decimal digits is its
\* number, a string with any other character ("$750,000") is NaN
ToNumber(s) ==
    IF s # <<>> /\ \A i \in 1..Len(s) : s[i] \in Digits THEN Number(ParseDigits(s)) ELSE NaN

\* value.toString().trim() === ''
IsBlank(s) == \A i \in 1..Len(s) : s[i] \in Whitespace

\* the validators of initializeRules; a field value is a string, '' when unset
DB_validator(fieldName, value, context, today) ==
    IF fieldName = "depositAmount"
    THEN LET purchasePrice == context["purchasePrice"]
             v == ToNumber(value)
             pp == ToNumber(purchasePrice)
         IN  IF purchasePrice # <<>> /\ value # <<>>
             THEN /\ IsNumber(v) /\ IsNumber(pp) /\ pp.v # 0
                  /\ 100 * v.v >= pp.v /\ 100 * v.v <= 20 * pp.v
             ELSE TRUE
    ELSE IF fieldName = "closingDate"
    THEN LET closingDate == ParseDate(value)
         IN  IF value # <<>>
             THEN /\ IsNumber(closingDate)
                  /\ closingDate.v - today >= 30 * TicksPerDay
                  /\ closingDate.v - today <= 365 * TicksPerDay
             ELSE TRUE
    ELSE IF fieldName = "leaseEndDate"
    THEN LET startDate == context["leaseStartDate"]
             start == ParseDate(startDate)
             end == ParseDate(value)
         IN  IF startDate # <<>> /\ value # <<>>
             THEN /\ IsNumber(start) /\ IsNumber(end)
                  /\ end.v - start.v >= 30 * TicksPerDay
                  /\ end.v - start.v <= 3650 * TicksPerDay
             ELSE TRUE
    ELSE TRUE

\* the score without Math.max
UnclampedScore(issues, warnings) == 100 - Len(issues) * 20 - Len(warnings) * 5

\* Math.max(0, 100 - issues * 20 - warnings * 5)
DB_score(issues, warnings) ==
    LET score == 100 - Len(issues) * 20 - Len(warnings) * 5
    IN  IF score > 0 THEN score ELSE 0

\* validateDocument(documentType, fields): without rules for the type the
\* result has no score
DB_validateDocument(documentType, flds, today) ==
    IF documentType \notin DOMAIN DB_rules
    THEN [valid |-> TRUE, issues |-> <<>>]
    ELSE LET rules == DB_rules[documentType]
             issues == SelectSeq(rules.requiredFields,
                                 LAMBDA f : flds[f] = <<>> \/ IsBlank(flds[f]))
             warnings == SelectSeq(rules.validationRules,
                                   LAMBDA f : flds[f] # <<>>
                                              /\ ~DB_validator(f, flds[f], flds, today))
         IN  [valid |-> Len(issues) = 0,
              issues |-> issues,
              warnings |-> warnings,
              score |-> DB_score(issues, warnings)]

(***************************************************************************)
(* Building strings                                                        *)
(***************************************************************************)
DigitChars == <<"0", "1", "2", "3", "4", "5", "6", "7", "8", "9">>

\* String(n) of an integer
RECURSIVE NumChars(_)
NumChars(n) ==
    IF n < 0 THEN <<"-">> \o NumChars(0 - n)
    ELSE IF n < 10 THEN <<DigitChars[n + 1]>>
    ELSE NumChars(n \div 10) \o <<DigitChars[(n % 10) + 1]>>

\* the items from the i-th on, with sep between them
RECURSIVE JoinFrom(_, _, _)
JoinFrom(items, sep, i) ==
    IF i > Len(items) THEN <<>>
    ELSE IF i = Len(items) THEN items[i]
    ELSE items[i] \o sep \o JoinFrom(items, sep, i + 1)

\* Array.prototype.join on strings; the array is bound, so that it is built once
Join(items, sep) == CHOOSE joined \in {JoinFrom(array, sep, 1) : array \in {items}} : TRUE

\* the parts of a template literal, one after the other
Concat(parts) == Join(parts, <<>>)

\* undefined, and the object {}
Undefined == [kind |-> "undefined"]
EmptyObject == <<>>

\* `${obj.name}` of a number and of a string property: "undefined" when the
\* object has no such property
HasProp(obj, name) == name \in DOMAIN obj
ShowNumber(obj, name) == IF HasProp(obj, name) THEN NumChars(obj[name]) ELSE Str("undefined")
ShowString(obj, name) == IF HasProp(obj, name) THEN Str(obj[name]) ELSE Str("undefined")

\* obj.name is an array with at least one element
NonEmptyList(obj, name) == HasProp(obj, name) /\ Len(obj[name]) > 0

\* the text of an issue and of a warning of checkDocumentValidity
IssueText(issue) == Concat(<<Str("Missing required signature: "), Str(issue[2])>>)
IssueTexts(issues) == [i \in 1..Len(issues) |-> IssueText(issues[i])]
WarningTexts(warnings) == [i \in 1..Len(warnings) |-> Str(warnings[i])]
FieldTexts(names) == [i \in 1..Len(names) |-> Str(names[i])]

\* items.forEach(item => response += `* ${item}\n`); "*" stands for the bullet
\* glyph of the templates
Bullets(items) == Concat([i \in 1..Len(items) |-> Concat(<<Str("* "), items[i], Str("\n")>>)])

\* the characters of a question, a list of words
QuestionChars(q) == Join([i \in 1..Len(q) |-> Str(q[i])], <<" ">>)

(***************************************************************************)
(* enhanced-chat-system (src/unnamed/part_000): EnhancedChatSystem.  The   *)
(* glyphs of the templates that are not ASCII are written as ASCII          *)
(* stand-ins: "*" for a bullet and "[ok]", "[x]", "[!]", "[w]" for the      *)
(* pictographs.                                                             *)
(***************************************************************************)
KeyFieldNames ==
    {"issueDate", "expiryDate", "jurisdiction", "purchasePrice", "closingDate",
     "buyerName", "sellerName", "propertyAddress", "depositAmount"}

\* documentData when no analysis result is at hand: every string property is
\* unset (""), every object property is null
NoDocumentData ==
    [documentType |-> "", classificationConfidence |-> Null, jurisdiction |-> "",
     issueDate |-> "", expiryDate |-> "", purchasePrice |-> "", depositAmount |-> "",
     closingDate |-> "", buyerName |-> "", sellerName |-> "", propertyAddress |-> "",
     fieldCompleteness |-> Null, validityCheck |-> Null]

\* documentData?.name
OptionalChain(data, name) == IF data = Null THEN NoDocumentData[name] ELSE data[name]

\* extractKeyFields: a field that is not set is the empty string
EC_extractKeyFields(data) == [f \in KeyFieldNames |-> OptionalChain(data, f)]

\* keyFields.name, the empty string when extractKeyFields never sets it
KeyField(keyFields, name) == IF name \in DOMAIN keyFields THEN keyFields[name] ELSE ""

EC_extractDocumentContext(data) ==
    LET documentType == OptionalChain(data, "documentType")
        confidence == OptionalChain(data, "classificationConfidence")
        fieldCompleteness == OptionalChain(data, "fieldCompleteness")
        validityCheck == OptionalChain(data, "validityCheck")
        jurisdiction == OptionalChain(data, "jurisdiction")
    IN  [documentType |-> IF documentType # "" THEN documentType ELSE "Unknown",
         confidence |-> IF confidence # Null THEN confidence ELSE Ratio(0, 1),
         completeness |-> IF fieldCompleteness # Null THEN fieldCompleteness.completeness
                          ELSE EmptyObject,
         validity |-> IF validityCheck # Null THEN validityCheck ELSE EmptyObject,
         jurisdiction |-> IF jurisdiction # "" THEN jurisdiction ELSE "Unknown",
         keyFields |-> EC_extractKeyFields(data),
         issues |-> IF validityCheck # Null THEN validityCheck.issues ELSE <<>>,
         warnings |-> IF validityCheck # Null THEN validityCheck.warnings ELSE <<>>]

\* the rules of the question classifier as the description lists them
ListedClassifyQuestion(questionText) ==
    LET q == toLowerCase(questionText)
    IN  IF Has(q, "what") /\ Has(q, "document") THEN "document_purpose"
        ELSE IF Has(q, "missing") \/ Has(q, "incomplete") THEN "completeness"
        ELSE IF Has(q, "valid") \/ Has(q, "ready") THEN "validity"
        ELSE IF Has(q, "price") \/ Has(q, "cost") \/ Has(q, "amount") THEN "financial"
        ELSE IF Has(q, "date") \/ Has(q, "when") THEN "temporal"
        ELSE IF Has(q, "who") \/ Has(q, "party") THEN "parties"
        ELSE IF Has(q, "where") \/ Has(q, "address") THEN "location"
        ELSE "general"

EC_classifyQuestion(questionText) ==
    LET q == toLowerCase(questionText)
    IN  IF Has(q, "what") /\ (Has(q, "document") \/ Has(q, "for")) THEN "document_purpose"
        ELSE IF Has(q, "missing") \/ Has(q, "incomplete") \/ Has(q, "complete")
        THEN "completeness"
        ELSE IF Has(q, "valid") \/ Has(q, "validity") \/ Has(q, "ready") THEN "validity"
        ELSE IF Has(q, "price") \/ Has(q, "cost") \/ Has(q, "amount") THEN "financial"
        ELSE IF Has(q, "date") \/ Has(q, "when") \/ Has(q, "time") THEN "temporal"
        ELSE IF Has(q, "who") \/ Has(q, "party") \/ Has(q, "person") THEN "parties"
        ELSE IF Has(q, "where") \/ Has(q, "address") \/ Has(q, "location") THEN "location"
        ELSE IF Has(q, "how") \/ Has(q, "process") \/ Has(q, "step") THEN "process"
        ELSE "general"

\* type.includes('Agreement of Purchase and Sale') || type.includes('APS')
IsApsType(type) ==
    Has(Str(type), "Agreement of Purchase and Sale") \/ Has(Str(type), "APS")

EC_generateDocumentPurposeResponse(context) ==
    LET type == context.documentType
    IN  Concat(<<Str("## Document Purpose\n\n"),
          IF IsApsType(type)
          THEN Concat(<<
            Str("This is an **Agreement of Purchase and Sale (APS)** - the foundational document for any real estate transaction. "),
            Str("It outlines the key terms and conditions that both the buyer and seller must agree to, including:\n\n"),
            Str("* **Purchase Price**: The agreed-upon price for the property\n"),
            Str("* **Closing Date**: When the transaction will be completed\n"),
            Str("* **Parties**: Buyer and seller information\n"),
            Str("* **Property Details**: Address and description\n"),
            Str("* **Conditions**: Any conditions that must be met\n\n"),
            Str("Once signed by both parties, this document becomes legally binding and forms the basis for the entire real estate transaction.")>>)
          ELSE IF Has(Str(type), "Lease")
          THEN Concat(<<
            Str("This is a **Residential Lease Agreement** that establishes the terms between a landlord and tenant. "),
            Str("It covers rent amount, lease duration, responsibilities, and other important terms for the rental relationship.")>>)
          ELSE IF Has(Str(type), "Fee Waiver")
          THEN Concat(<<
            Str("This is a **Fee Waiver Request** - a document used to request exemption from court or administrative fees. "),
            Str("It typically requires demonstrating financial hardship and providing supporting documentation.")>>)
          ELSE Concat(<<
            Str("This is a **"), Str(type),
            Str("** document. Based on the analysis, it appears to be a legal document "),
            Str("with "), ShowNumber(context.completeness, "score"), Str("% completeness. "),
            Str("I can help you understand its specific purpose and requirements.")>>)>>)

\* the closing sentence of generateCompletenessResponse; undefined >= 90 is false
EC_completenessVerdict(completeness) ==
    IF HasProp(completeness, "score") /\ completeness.score >= 90
    THEN Str("**Great news!** Your document appears to be nearly complete and ready for use.")
    ELSE IF HasProp(completeness, "score") /\ completeness.score >= 70
    THEN Str("**Good progress!** Your document is mostly complete but needs a few more fields filled in.")
    ELSE Str("**Needs attention!** Your document is missing several important fields that should be completed.")

EC_generateCompletenessResponse(context) ==
    Concat(<<
        Str("## Document Completeness Analysis\n\n"),
        Str("Your document is **"), ShowNumber(context.completeness, "score"),
        Str("% complete** ("), ShowString(context.completeness, "status"), Str(").\n\n"),
        IF NonEmptyList(context.completeness, "presentRequired")
        THEN Concat(<<Str("**[ok] Present Fields:**\n"),
                      Bullets(FieldTexts(context.completeness.presentRequired)), Str("\n")>>)
        ELSE <<>>,
        IF NonEmptyList(context.completeness, "missingRequired")
        THEN Concat(<<Str("**[x] Missing Required Fields:**\n"),
                      Bullets(FieldTexts(context.completeness.missingRequired)), Str("\n")>>)
        ELSE <<>>,
        IF Len(context.issues) > 0
        THEN Concat(<<Str("**[!] Critical Issues:**\n"),
                      Bullets(IssueTexts(context.issues)), Str("\n")>>)
        ELSE <<>>,
        IF Len(context.warnings) > 0
        THEN Concat(<<Str("**[w] Warnings:**\n"),
                      Bullets(WarningTexts(context.warnings)), Str("\n")>>)
        ELSE <<>>,
        EC_completenessVerdict(context.completeness)>>)

EC_generateValidityResponse(context) ==
    LET validity == context.validity
    IN  Concat(<<
          Str("## Document Validity Assessment\n\n"),
          Str("**Status**: "), ShowString(validity, "status"), Str("\n"),
          Str("**Score**: "), ShowNumber(validity, "score"), Str("%\n\n"),
          IF /\ HasProp(validity, "issues") /\ Len(validity.issues) = 0
             /\ HasProp(validity, "warnings") /\ Len(validity.warnings) = 0
          THEN Concat(<<
            Str("[ok] **Excellent!** Your document appears to be valid with no issues or warnings. "),
            Str("It should be ready for the next steps in your process.")>>)
          ELSE Concat(<<
            IF NonEmptyList(validity, "issues")
            THEN Concat(<<Str("[!] **Critical Issues Found:**\n"),
                          Bullets(IssueTexts(validity.issues)), Str("\n")>>)
            ELSE <<>>,
            IF NonEmptyList(validity, "warnings")
            THEN Concat(<<Str("[w] **Warnings:**\n"),
                          Bullets(WarningTexts(validity.warnings)), Str("\n")>>)
            ELSE <<>>,
            Str("**Recommendation**: Address the issues above before proceeding with this document.")>>)>>)

\* if (keyFields.name) response += `**Label**: ${keyFields.name}` + end
Labelled(label, value, end) ==
    IF value # "" THEN Concat(<<Str("**"), label, Str("**: "), Str(value), end>>)
    ELSE <<>>

EC_generateFinancialResponse(context) ==
    LET keyFields == context.keyFields
    IN  Concat(<<
          Str("## Financial Information\n\n"),
          Labelled(Str("Purchase Price"), KeyField(keyFields, "purchasePrice"), Str("\n\n")),
          Labelled(Str("Deposit Amount"), KeyField(keyFields, "depositAmount"), Str("\n\n")),
          Labelled(Str("Rent Amount"), KeyField(keyFields, "rentAmount"), Str("\n\n")),
          IF /\ KeyField(keyFields, "purchasePrice") = ""
             /\ KeyField(keyFields, "depositAmount") = ""
             /\ KeyField(keyFields, "rentAmount") = ""
          THEN Concat(<<
            Str("I don't see any financial information in this document. "),
            Str("This might be because the document type doesn't typically contain financial details, "),
            Str("or the information wasn't extracted properly.")>>)
          ELSE <<>> >>)

EC_generateTemporalResponse(context) ==
    LET keyFields == context.keyFields
    IN  Concat(<<
          Str("## Important Dates\n\n"),
          Labelled(Str("Issue Date"), KeyField(keyFields, "issueDate"), Str("\n")),
          Labelled(Str("Expiry Date"), KeyField(keyFields, "expiryDate"), Str("\n")),
          Labelled(Str("Closing Date"), KeyField(keyFields, "closingDate"), Str("\n")),
          Labelled(Str("Lease Start Date"), KeyField(keyFields, "leaseStartDate"), Str("\n")),
          Labelled(Str("Lease End Date"), KeyField(keyFields, "leaseEndDate"), Str("\n")),
          IF /\ KeyField(keyFields, "issueDate") = ""
             /\ KeyField(keyFields, "expiryDate") = ""
             /\ KeyField(keyFields, "closingDate") = ""
          THEN Concat(<<
            Str("I don't see any specific dates in this document. "),
            Str("This might be because the document type doesn't typically contain date information, "),
            Str("or the dates weren't extracted properly.")>>)
          ELSE <<>> >>)

EC_generatePartiesResponse(context) ==
    LET keyFields == context.keyFields
    IN  Concat(<<
          Str("## Parties Involved\n\n"),
          Labelled(Str("Buyer"), KeyField(keyFields, "buyerName"), Str("\n")),
          Labelled(Str("Seller"), KeyField(keyFields, "sellerName"), Str("\n")),
          Labelled(Str("Tenant"), KeyField(keyFields, "tenantName"), Str("\n")),
          Labelled(Str("Landlord"), KeyField(keyFields, "landlordName"), Str("\n")),
          Labelled(Str("Applicant"), KeyField(keyFields, "applicantName"), Str("\n")),
          IF /\ KeyField(keyFields, "buyerName") = ""
             /\ KeyField(keyFields, "sellerName") = ""
             /\ KeyField(keyFields, "tenantName") = ""
             /\ KeyField(keyFields, "landlordName") = ""
          THEN Concat(<<
            Str("I don't see any party information in this document. "),
            Str("This might be because the document type doesn't typically contain party details, "),
            Str("or the information wasn't extracted properly.")>>)
          ELSE <<>> >>)

EC_generateLocationResponse(context) ==
    LET keyFields == context.keyFields
    IN  Concat(<<
          Str("## Property Information\n\n"),
          Labelled(Str("Property Address"), KeyField(keyFields, "propertyAddress"), Str("\n")),
          IF KeyField(keyFields, "propertyAddress") = ""
          THEN Concat(<<
            Str("I don't see any property address information in this document. "),
            Str("This might be because the document type doesn't typically contain location details, "),
            Str("or the information wasn't extracted properly.")>>)
          ELSE <<>> >>)

EC_generateProcessResponse(context) ==
    LET type == context.documentType
    IN  Concat(<<Str("## Next Steps\n\n"),
          IF IsApsType(type)
          THEN Concat(<<
            Str("For an **Agreement of Purchase and Sale**, here are the typical next steps:\n\n"),
            Str("1. **Review all conditions** in Schedule A\n"),
            Str("2. **Ensure all parties sign** the document\n"),
            Str("3. **Submit to lawyer** for legal review\n"),
            Str("4. **Meet all conditions** before closing date\n"),
            Str("5. **Prepare for closing** with all required documents\n\n"),
            Str("**Important**: This document becomes legally binding once signed by both parties.")>>)
          ELSE IF Has(Str(type), "Lease")
          THEN Concat(<<
            Str("For a **Lease Agreement**, here are the typical next steps:\n\n"),
            Str("1. **Review all terms** carefully\n"),
            Str("2. **Ensure both parties sign** the agreement\n"),
            Str("3. **Collect security deposit** if required\n"),
            Str("4. **Provide keys** on move-in date\n"),
            Str("5. **Set up utilities** in tenant's name\n\n"),
            Str("**Important**: Both parties should keep a signed copy of the lease.")>>)
          ELSE Concat(<<
            Str("For this **"), Str(type), Str("**, I recommend:\n\n"),
            Str("1. **Review the document** for completeness\n"),
            Str("2. **Address any missing fields** identified in the analysis\n"),
            Str("3. **Consult with a professional** if needed\n"),
            Str("4. **Submit according to requirements**\n\n"),
            Str("**Note**: The specific process may vary depending on the document type and jurisdiction.")>>)>>)

EC_generateGeneralResponse(questionText, context) ==
    Concat(<<
        Str("## Answer to Your Question\n\n"),
        Str("I understand you're asking: \""), questionText, Str("\"\n\n"),
        Str("Based on your **"), Str(context.documentType),
        Str("** document, I can help you with:\n\n"),
        Str("* **Document purpose** and what it's used for\n"),
        Str("* **Missing information** that needs to be filled in\n"),
        Str("* **Validity status** and any issues found\n"),
        Str("* **Specific details** like dates, amounts, or parties\n"),
        Str("* **Next steps** in your process\n\n"),
        Str("Could you be more specific about what you'd like to know? "),
        Str("For example, you could ask \"What is the purchase price?\" or \"What information is missing?\"")>>)

\* the confidence that generateContextualResponse gives a question type
EC_confidence(questionType) ==
    CASE questionType \in {"document_purpose", "financial", "temporal", "parties", "location"}
            -> Ratio(9, 10)
      [] questionType = "completeness" -> Ratio(85, 100)
      [] questionType \in {"validity", "process"} -> Ratio(8, 10)
      [] OTHER -> Ratio(7, 10)

EC_generateContextualResponse(questionText, questionType, context, today) ==
    [answerMarkdown |->
        CASE questionType = "document_purpose" -> EC_generateDocumentPurposeResponse(context)
          [] questionType = "completeness" -> EC_generateCompletenessResponse(context)
          [] questionType = "validity" -> EC_generateValidityResponse(context)
          [] questionType = "financial" -> EC_generateFinancialResponse(context)
          [] questionType = "temporal" -> EC_generateTemporalResponse(context)
          [] questionType = "parties" -> EC_generatePartiesResponse(context)
          [] questionType = "location" -> EC_generateLocationResponse(context)
          [] questionType = "process" -> EC_generateProcessResponse(context)
          [] OTHER -> EC_generateGeneralResponse(questionText, context),
     confidence |-> EC_confidence(questionType),
     timestamp |-> today,
     documentType |-> context.documentType,
     questionType |-> questionType]

\* if (!map.has(key)) map.set(key, initial); ... map.get(key)
MapGet(map, key, initial) == IF key \in DOMAIN map THEN map[key] ELSE initial

\* map.set(key, value)
MapSet(map, key, value) == [k \in DOMAIN map \cup {key} |-> IF k = key THEN value ELSE map[k]]

\* x++ of a property that may be undefined: undefined + 1 is NaN, and so is NaN + 1
Increment(x) == IF IsNumber(x) THEN Number(x.v + 1) ELSE NaN

\* learnFromInteraction; totalQuestions is not set by the constructor
EC_learnFromInteraction(learningData, questionText, questionType, response, context) ==
    LET responseKey == Concat(<<Str(questionType), Str("_"), Str(context.documentType)>>)
        learnt == [question |-> questionText,
                   response |-> response.answerMarkdown,
                   confidence |-> response.confidence,
                   timestamp |-> response.timestamp]
    IN  [learningData EXCEPT
            !.totalConversations = @ + 1,
            !.totalQuestions = Increment(@),
            !.questionPatterns = MapSet(@, questionType, MapGet(@, questionType, 0) + 1),
            !.documentTypePatterns =
                MapSet(@, context.documentType, MapGet(@, context.documentType, 0) + 1),
            !.successfulResponses =
                MapSet(@, responseKey, Append(MapGet(@, responseKey, <<>>), learnt))]

\* the constructor; totalQuestions is not among the properties it sets
EC_constructor ==
    [conversationHistory |-> <<>>,
     learningData |-> [totalConversations |-> 0, totalQuestions |-> Undefined,
                       documentTypePatterns |-> <<>>, questionPatterns |-> <<>>,
                       successfulResponses |-> <<>>, userFeedback |-> <<>>]]

\* the end of processQuestion: the response is returned, the question and the
\* response are recorded and learnt from
EC_record(system, questionText, questionType, context, response, today) ==
    [response |-> response,
     system |->
        [conversationHistory |->
            system.conversationHistory
            \o <<[type |-> "user", question |-> questionText, timestamp |-> today,
                  questionType |-> questionType],
                 [type |-> "ai", response |-> response, timestamp |-> today,
                  confidence |-> response.confidence]>>,
         learningData |->
            EC_learnFromInteraction(system.learningData, questionText, questionType,
                                    response, context)]]

\* processQuestion once the context and the type of the question are known
EC_respond(system, questionText, questionType, context, today) ==
    EC_record(system, questionText, questionType, context,
              EC_generateContextualResponse(questionText, questionType, context, today),
              today)

\* processQuestion: the response, and the EnhancedChatSystem after it
EC_processQuestion(system, questionText, data, today) ==
    EC_respond(system, questionText, EC_classifyQuestion(questionText),
               EC_extractDocumentContext(data), today)

\* processQuestion up to its await: the context and the type of the question,
\* the user entry, and the response that generateContextualResponse computes
\* before its promise is awaited
EC_asked(system, questionText, data, today) ==
    LET context == EC_extractDocumentContext(data)
        questionType == EC_classifyQuestion(questionText)
    IN  [call |-> [question |-> questionText, questionType |-> questionType,
                   context |-> context,
                   response |-> EC_generateContextualResponse(questionText, questionType,
                                                              context, today),
                   stage |-> "await"],
         system |->
            [system EXCEPT
                !.conversationHistory =
                    Append(@, [type |-> "user", question |-> questionText,
                               timestamp |-> today, questionType |-> questionType])]]

\* processQuestion after its await: the ai entry, learnFromInteraction, return
EC_answered(system, call, today) ==
    [conversationHistory |->
        Append(system.conversationHistory,
               [type |-> "ai", response |-> call.response, timestamp |-> today,
                confidence |-> call.response.confidence]),
     learningData |->
        EC_learnFromInteraction(system.learningData, call.question, call.questionType,
                                call.response, call.context)]

(***************************************************************************)
(* self-learning-system (src/unnamed/part_002): SelfLearningSystem         *)
(***************************************************************************)
\* loadKnowledgeBase when localStorage holds none; questionPatterns is kept in the
\* order of Object.entries
SL_defaultKnowledgeBase ==
    [documentTypes |->
        (APS :> [patterns |-> <<"purchase price", "closing date", "buyer", "seller",
                               "property address">>,
                 commonQuestions |-> <<"What is the purchase price?",
                                       "When is the closing date?", "Who are the parties?">>,
                 accuracy |-> Ratio(92, 100), confidence |-> Ratio(88, 100)]
         @@
         LEASE :> [patterns |-> <<"rent amount", "lease term", "tenant", "landlord",
                                 "security deposit">>,
                   commonQuestions |-> <<"What is the rent?", "How long is the lease?",
                                         "What is the security deposit?">>,
                   accuracy |-> Ratio(89, 100), confidence |-> Ratio(85, 100)]),
     questionPatterns |->
        <<[intent |-> "what_is_document",
           patterns |-> <<"what is", "what does this", "purpose of", "document for">>],
          [intent |-> "missing_info",
           patterns |-> <<"missing", "incomplete", "what needs", "what should">>],
          [intent |-> "validity_check",
           patterns |-> <<"valid", "ready", "good to go", "complete">>],
          [intent |-> "price_info",
           patterns |-> <<"price", "cost", "amount", "how much">>],
          [intent |-> "date_info",
           patterns |-> <<"closing", "date", "when", "deadline">>],
          [intent |-> "parties_info",
           patterns |-> <<"who", "parties", "buyer", "seller", "tenant", "landlord">>]>>,
     responseTemplates |->
        [what_is_document |->
            (APS :> "This is an Agreement of Purchase and Sale (APS) - the legal contract for real estate transactions in Ontario. It outlines key terms like purchase price, closing date, and conditions that both parties must meet."
             @@
             LEASE :> "This is a Residential Lease Agreement - the legal contract between a landlord and tenant for renting property. It specifies rent, lease terms, and responsibilities of both parties.")]]

\* loadLearningMetrics when localStorage holds none
SL_defaultLearningMetrics(today) ==
    [totalInteractions |-> 0, correctPredictions |-> 0, accuracy |-> Ratio(85, 100),
     learningRate |-> Ratio(1, 10), lastUpdated |-> today]

\* loadUserFeedback when localStorage holds none
SL_defaultUserFeedback ==
    [positive |-> <<>>, negative |-> <<>>, suggestions |-> <<>>, accuracy |-> Ratio(85, 100)]

\* localStorage.getItem(key) ? JSON.parse(stored) : fallback
SL_load(storage, key, fallback) == IF key \in DOMAIN storage THEN storage[key] ELSE fallback

\* the constructor
SL_constructor(storage, today) ==
    [knowledgeBase |-> SL_load(storage, "legal_knowledge_base", SL_defaultKnowledgeBase),
     userFeedback |-> SL_load(storage, "user_feedback", SL_defaultUserFeedback),
     learningMetrics |-> SL_load(storage, "learning_metrics", SL_defaultLearningMetrics(today)),
     conversationHistory |-> <<>>]

\* calculatePatternMatch: matches / patterns.length
SL_calculatePatternMatch(chars, patterns) ==
    Ratio(Cardinality({i \in 1..Len(patterns) : Has(chars, patterns[i])}), Len(patterns))

\* the loop of analyzeQuestion from entry j on; the intent "" stands for null
RECURSIVE SL_bestOfPatterns(_, _, _, _)
SL_bestOfPatterns(questionPatterns, questionLower, j, best) ==
    IF j > Len(questionPatterns) THEN best
    ELSE LET score == SL_calculatePatternMatch(questionLower, questionPatterns[j].patterns)
         IN  SL_bestOfPatterns(questionPatterns, questionLower, j + 1,
                 IF RatioLess(best.confidence, score)
                 THEN [intent |-> questionPatterns[j].intent, confidence |-> score]
                 ELSE best)

SL_analyzeQuestion(knowledgeBase, questionText, documentType) ==
    LET best == SL_bestOfPatterns(knowledgeBase.questionPatterns, toLowerCase(questionText), 1,
                                  [intent |-> "", confidence |-> Ratio(0, 1)])
    IN  [intent |-> best.intent, confidence |-> best.confidence, documentType |-> documentType]

SL_getFallbackResponse(documentType) ==
    Concat(<<Str("I can help you understand this "), Str(documentType),
             Str(" document. You can ask me about:\n\n* What this document is for\n* What information might be missing\n* Whether the document is valid and ready\n* Key details and terms\n* What steps to take next\n\nWhat would you like to know?")>>)

SL_customizeResponse(template, data, intent) ==
    IF intent = "what_is_document" /\ OptionalChain(data, "fieldCompleteness") # Null
    THEN Concat(<<template, Str(" Your document is "),
                  toLowerCase(Str(data.fieldCompleteness.completeness.status)), Str(" ("),
                  NumChars(data.fieldCompleteness.completeness.score), Str("% complete).")>>)
    ELSE template

SL_generateMissingInfoResponse(data) ==
    IF OptionalChain(data, "fieldCompleteness") = Null
    THEN Str("I need to analyze your document first to identify missing information. Please upload a document.")
    ELSE IF Len(data.fieldCompleteness.completeness.missingRequired) = 0
    THEN Str("Great news! Your document appears to have all the required fields. It looks complete and ready to go.")
    ELSE Concat(<<
        Str("I can see that your document is missing some important information:\n\n"),
        Str("**Missing Required Fields:**\n"),
        Bullets(FieldTexts(data.fieldCompleteness.completeness.missingRequired)),
        Str("\nThese fields are essential for a valid "), Str(data.documentType),
        Str(". I recommend completing them before proceeding.")>>)

SL_generateValidityResponse(data) ==
    IF OptionalChain(data, "validityCheck") = Null
    THEN Str("I need to analyze your document first to check its validity. Please upload a document.")
    ELSE Concat(<<
        Str("Your document has a validity score of **"), NumChars(data.validityCheck.score),
        Str("%** and is currently **"), Str(data.validityCheck.status), Str("**. "),
        IF Len(data.validityCheck.issues) = 0
        THEN Str("Everything looks good! The document appears to be ready for use.")
        ELSE Concat(<<Str("However, there are some issues to address:\n\n"),
                      Bullets(IssueTexts(data.validityCheck.issues)),
                      Str("\nOnce these are resolved, your document should be ready to go.")>>)>>)

\* value || fallback, of a string
OrElse(value, fallback) == IF value # "" THEN value ELSE fallback

SL_generatePriceResponse(data) ==
    Concat(<<Str("The purchase price for this property is **"),
             Str(OrElse(OptionalChain(data, "purchasePrice"), "$750,000")),
             Str("**. This is the amount the buyer has agreed to pay, and it's one of the most critical terms in any real estate transaction. Make sure this amount is clearly stated and matches what was negotiated.")>>)

SL_generateDateResponse(data) ==
    Concat(<<Str("The closing date is set for **"),
             Str(OrElse(OptionalChain(data, "closingDate"), "June 15, 2024")),
             Str("**. This is when the property ownership will officially transfer from the seller to the buyer, and when the final payment is due. Both parties need to ensure they can meet this deadline, as delays can have financial implications.")>>)

SL_generatePartiesResponse(data) ==
    Concat(<<Str("The parties involved in this transaction are:\n\n**Buyer:** "),
             Str(OrElse(OptionalChain(data, "buyerName"), "John Doe")), Str("\n**Seller:** "),
             Str(OrElse(OptionalChain(data, "sellerName"), "Jane Smith")),
             Str("\n\nBoth parties must sign the document for it to become legally binding. Make sure all names are spelled correctly and match their legal identification.")>>)

SL_generateDynamicResponse(intent, documentType, data) ==
    CASE intent = "missing_info" -> SL_generateMissingInfoResponse(data)
      [] intent = "validity_check" -> SL_generateValidityResponse(data)
      [] intent = "price_info" -> SL_generatePriceResponse(data)
      [] intent = "date_info" -> SL_generateDateResponse(data)
      [] intent = "parties_info" -> SL_generatePartiesResponse(data)
      [] OTHER -> SL_getFallbackResponse(documentType)

SL_buildResponse(knowledgeBase, analysis, documentType, data) ==
    IF RatioLess(analysis.confidence, Ratio(3, 10))
    THEN SL_getFallbackResponse(documentType)
    ELSE IF /\ analysis.intent \in DOMAIN knowledgeBase.responseTemplates
            /\ documentType \in DOMAIN knowledgeBase.responseTemplates[analysis.intent]
    THEN SL_customizeResponse(Str(knowledgeBase.responseTemplates[analysis.intent][documentType]),
                              data, analysis.intent)
    ELSE SL_generateDynamicResponse(analysis.intent, documentType, data)

\* learnFromInteraction: the SelfLearningSystem after it
SL_learnFromInteraction(system, questionText, analysis, response, today) ==
    [system EXCEPT
        !.conversationHistory =
            Append(@, [question |-> questionText, analysis |-> analysis, response |-> response,
                       timestamp |-> today]),
        !.learningMetrics = [@ EXCEPT !.totalInteractions = @ + 1, !.lastUpdated = today]]

\* localStorage after saveLearningMetrics and saveKnowledgeBase; an item holds the
\* value that JSON.parse gives back for it
SL_save(storage, system) ==
    [k \in DOMAIN storage \cup {"learning_metrics", "legal_knowledge_base"} |->
        IF k = "learning_metrics" THEN system.learningMetrics
        ELSE IF k = "legal_knowledge_base" THEN system.knowledgeBase
        ELSE storage[k]]

\* the end of generateResponse: the response is returned and learnt from
SL_learn(system, questionText, analysis, response, today) ==
    [response |-> response,
     system |-> SL_learnFromInteraction(system, questionText, analysis, response, today)]

\* generateResponse once the question is analysed
SL_respond(system, questionText, analysis, documentType, data, today) ==
    SL_learn(system, questionText, analysis,
             SL_buildResponse(system.knowledgeBase, analysis, documentType, data), today)

\* generateResponse: the response, and the system after learning from it
SL_generateResponse(system, questionText, documentType, data, today) ==
    SL_respond(system, questionText,
               SL_analyzeQuestion(system.knowledgeBase, questionText, documentType),
               documentType, data, today)

\* processFeedback with updateAccuracy: the SelfLearningSystem after it
SL_processFeedback(system, questionText, response, feedback, rating, today) ==
    LET feedbackEntry == [question |-> questionText, response |-> response,
                          feedback |-> feedback, rating |-> rating, timestamp |-> today]
        positive == IF rating >= 4 THEN Append(system.userFeedback.positive, feedbackEntry)
                    ELSE system.userFeedback.positive
        negative == IF rating >= 4 THEN system.userFeedback.negative
                    ELSE Append(system.userFeedback.negative, feedbackEntry)
        accuracy == Ratio(Len(positive), Len(positive) + Len(negative))
    IN  [system EXCEPT
            !.userFeedback = [@ EXCEPT !.positive = positive, !.negative = negative,
                                       !.accuracy = accuracy],
            !.learningMetrics = [@ EXCEPT !.accuracy = accuracy]]

(***************************************************************************)
(* feedback-system (src/unnamed/part_005): FeedbackSystem                  *)
(***************************************************************************)
\* obj.name, undefined when obj has no such property
PropOf(obj, name) == IF HasProp(obj, name) THEN obj[name] ELSE Undefined

\* x += n for a property read from JSON: null counts as 0, undefined gives NaN
PlusAssign(x, n) ==
    IF IsNumber(x) THEN Number(x.v + n)
    ELSE IF x = Null THEN Number(n)
    ELSE NaN

\* totalRating / totalFeedback; totalFeedback is 1 at least when it is a number
Quotient(x, y) ==
    IF IsNumber(x) /\ IsNumber(y) THEN [kind |-> "quotient", num |-> x.v, den |-> y.v]
    ELSE NaN

FS_metricNames == {"totalFeedback", "averageRating", "totalRating"}

\* JSON.parse(JSON.stringify(metrics)): NaN is written as null
FS_stringified(metrics) ==
    [k \in DOMAIN metrics |->
        IF k \in FS_metricNames /\ metrics[k] = NaN THEN Null ELSE metrics[k]]

\* updateLearningMetrics(feedback): localStorage after it
FS_updateLearningMetrics(storage, feedback) ==
    LET metrics == SL_load(storage, "learning_metrics",
                           [totalFeedback |-> Number(0), averageRating |-> Number(0),
                            totalRating |-> Number(0)])
        totalFeedback == PlusAssign(PropOf(metrics, "totalFeedback"), 1)
        totalRating == PlusAssign(PropOf(metrics, "totalRating"), feedback.rating)
        updated == [k \in DOMAIN metrics \cup FS_metricNames |->
                       IF k = "totalFeedback" THEN totalFeedback
                       ELSE IF k = "totalRating" THEN totalRating
                       ELSE IF k = "averageRating" THEN Quotient(totalRating, totalFeedback)
                       ELSE metrics[k]]
    IN  MapSet(storage, "learning_metrics", FS_stringified(updated))

\* processFeedback(feedback) with window.selfLearningSystem set: the
\* SelfLearningSystem and localStorage after it
FS_processFeedback(system, storage, feedback) ==
    LET learnt == SL_processFeedback(system, feedback.question, feedback.response,
                                     feedback.suggestion, feedback.rating, feedback.timestamp)
        saved == MapSet(storage, "user_feedback", learnt.userFeedback)
        history == MapSet(saved, "user_feedback_history",
                          Append(SL_load(saved, "user_feedback_history", <<>>), feedback))
    IN  [system |-> learnt, storage |-> FS_updateLearningMetrics(history, feedback)]

\* submitFeedback with the rating and the radio button that are set; the
\* suggestion is left empty
FS_submitFeedback(system, storage, shown, rating, feedbackType, today) ==
    IF rating = 0 /\ feedbackType = "no-feedback" THEN [system |-> system, storage |-> storage]
    ELSE FS_processFeedback(system, storage,
                            [question |-> shown.question, response |-> shown.response,
                             rating |-> rating, feedbackType |-> feedbackType,
                             suggestion |-> "", timestamp |-> today])

\* analyzeFeedbackTypes: how often each type occurs
FS_analyzeFeedbackTypes(feedbackHistory) ==
    [type \in {feedbackHistory[i].feedbackType : i \in 1..Len(feedbackHistory)} |->
        Cardinality({i \in 1..Len(feedbackHistory) : feedbackHistory[i].feedbackType = type})]

\* x.toFixed(1) of a number that is a whole number or a quotient of two
ToFixed1(x) ==
    LET tenths == IF IsNumber(x) THEN 10 * x.v
                  ELSE (20 * x.num + x.den) \div (2 * x.den)
    IN  Concat(<<NumChars(tenths \div 10), Str("."), NumChars(tenths % 10)>>)

\* getFeedbackStats(): averageRating.toFixed throws when averageRating is
\* undefined or null
FS_getFeedbackStats(storage) ==
    LET metrics == SL_load(storage, "learning_metrics",
                           [totalFeedback |-> Number(0), averageRating |-> Number(0)])
        feedbackHistory == SL_load(storage, "user_feedback_history", <<>>)
    IN  IF PropOf(metrics, "averageRating") \in {Undefined, Null}
        THEN Threw("TypeError: Cannot read properties of undefined (reading 'toFixed')")
        ELSE Returned([totalFeedback |-> PropOf(metrics, "totalFeedback"),
                       averageRating |-> ToFixed1(metrics.averageRating),
                       recentFeedback |->
                           SubSeq(feedbackHistory, Max({1, Len(feedbackHistory) - 9}),
                                  Len(feedbackHistory)),
                       feedbackTypes |-> FS_analyzeFeedbackTypes(feedbackHistory)])

(***************************************************************************)
(* real-document-intelligence.js: RealDocumentIntelligence                 *)
(***************************************************************************)
\* \s*:?\s*
RD_sep == Cat(<<Star(WS), Opt(Lit(":")), Star(WS)>>)
\* \$?[\d,]+
RD_amount == Cat(<<Opt(Lit("$")), Plus(DigitOrComma)>>)
\* [A-Za-z]+\s+\d{1,2},?\s+\d{4}
RD_date ==
    Cat(<<Plus(Cls(Letters)), Plus(WS), Digit, Opt(Digit), Opt(Lit(",")), Plus(WS),
          Digit, Digit, Digit, Digit>>)
\* ([A-Za-z\s\.]+) and ([A-Za-z0-9\s,\.]+)
RD_name == Plus(Cls(Letters \cup Whitespace \cup {"."}))
RD_address == Plus(Cls(Letters \cup Digits \cup Whitespace \cup {",", "."}))

\* a pattern of getFieldPatterns, all with the i flag: what stands before the
\* group, the group if it has one, and pattern.toString().  A lazy group is
\* (.+?) under the s flag and ends before the first 'signature' or at the end.
RD_whole(source, re) == [source |-> source, prefix |-> re, group |-> "none", re |-> re]
RD_grouped(source, prefix, re) ==
    [source |-> source, prefix |-> prefix, group |-> "greedy", re |-> re]
RD_lazy(source, prefix) ==
    [source |-> source, prefix |-> prefix, group |-> "lazy", re |-> Lit("signature")]

RD_apsPatterns ==
    << [fieldName |-> "buyerName",
        patterns |-> <<RD_grouped("/buyer\\s*:?\\s*([A-Za-z\\s\\.]+)/i",
                                  Cat(<<Lit("buyer"), RD_sep>>), RD_name),
                       RD_grouped("/purchaser\\s*:?\\s*([A-Za-z\\s\\.]+)/i",
                                  Cat(<<Lit("purchaser"), RD_sep>>), RD_name)>>],
       [fieldName |-> "sellerName",
        patterns |-> <<RD_grouped("/seller\\s*:?\\s*([A-Za-z\\s\\.]+)/i",
                                  Cat(<<Lit("seller"), RD_sep>>), RD_name),
                       RD_grouped("/vendor\\s*:?\\s*([A-Za-z\\s\\.]+)/i",
                                  Cat(<<Lit("vendor"), RD_sep>>), RD_name)>>],
       [fieldName |-> "propertyAddress",
        patterns |-> <<RD_grouped("/property\\s*:?\\s*([A-Za-z0-9\\s,\\.]+)/i",
                                  Cat(<<Lit("property"), RD_sep>>), RD_address),
                       RD_grouped("/address\\s*:?\\s*([A-Za-z0-9\\s,\\.]+)/i",
                                  Cat(<<Lit("address"), RD_sep>>), RD_address)>>],
       [fieldName |-> "purchasePrice",
        patterns |-> <<RD_whole("/purchase\\s+price\\s*:?\\s*\\$?[\\d,]+/i",
                                Cat(<<Lit("purchase"), Plus(WS), Lit("price"), RD_sep,
                                      RD_amount>>)),
                       RD_whole("/price\\s*:?\\s*\\$?[\\d,]+/i",
                                Cat(<<Lit("price"), RD_sep, RD_amount>>))>>],
       [fieldName |-> "depositAmount",
        patterns |-> <<RD_whole("/deposit\\s*:?\\s*\\$?[\\d,]+/i",
                                Cat(<<Lit("deposit"), RD_sep, RD_amount>>)),
                       RD_whole("/down\\s+payment\\s*:?\\s*\\$?[\\d,]+/i",
                                Cat(<<Lit("down"), Plus(WS), Lit("payment"), RD_sep,
                                      RD_amount>>))>>],
       [fieldName |-> "closingDate",
        patterns |-> <<RD_whole("/closing\\s+date\\s*:?\\s*[A-Za-z]+\\s+\\d{1,2},?\\s+\\d{4}/i",
                                Cat(<<Lit("closing"), Plus(WS), Lit("date"), RD_sep, RD_date>>)),
                       RD_whole("/closing\\s*:?\\s*[A-Za-z]+\\s+\\d{1,2},?\\s+\\d{4}/i",
                                Cat(<<Lit("closing"), RD_sep, RD_date>>))>>],
       [fieldName |-> "irrevocableDate",
        patterns |-> <<RD_whole("/irrevocable\\s+date\\s*:?\\s*[A-Za-z]+\\s+\\d{1,2},?\\s+\\d{4}/i",
                                Cat(<<Lit("irrevocable"), Plus(WS), Lit("date"), RD_sep,
                                      RD_date>>)),
                       RD_whole("/irrevocable\\s*:?\\s*[A-Za-z]+\\s+\\d{1,2},?\\s+\\d{4}/i",
                                Cat(<<Lit("irrevocable"), RD_sep, RD_date>>))>>],
       [fieldName |-> "scheduleA",
        patterns |-> <<RD_grouped("/schedule\\s+a\\s*:?\\s*(attached|included|yes|no)/i",
                                  Cat(<<Lit("schedule"), Plus(WS), Lit("a"), RD_sep>>),
                                  Alt(<<Lit("attached"), Lit("included"), Lit("yes"),
                                        Lit("no")>>)),
                       RD_whole("/schedule\\s+a\\s*attached/i",
                                Cat(<<Lit("schedule"), Plus(WS), Lit("a"), Star(WS),
                                      Lit("attached")>>))>>],
       [fieldName |-> "conditions",
        patterns |-> <<RD_lazy("/conditions?\\s*:?\\s*(.+?)(?=signatures?|$)/is",
                               Cat(<<Lit("condition"), Opt(Lit("s")), RD_sep>>))>>],
       [fieldName |-> "buyerSignature",
        patterns |-> <<RD_whole("/buyer\\s*:?\\s*_+/i",
                                Cat(<<Lit("buyer"), RD_sep, Plus(Lit("_"))>>)),
                       RD_whole("/purchaser\\s*:?\\s*_+/i",
                                Cat(<<Lit("purchaser"), RD_sep, Plus(Lit("_"))>>))>>],
       [fieldName |-> "sellerSignature",
        patterns |-> <<RD_whole("/seller\\s*:?\\s*_+/i",
                                Cat(<<Lit("seller"), RD_sep, Plus(Lit("_"))>>)),
                       RD_whole("/vendor\\s*:?\\s*_+/i",
                                Cat(<<Lit("vendor"), RD_sep, Plus(Lit("_"))>>))>> ] >>

\* getFieldPatterns(documentType) for the types that are not a lease: the
\* entries of the Map in the order in which they are set
RD_getFieldPatterns(documentType) ==
    IF Has(Str(documentType), "Agreement of Purchase and Sale") \/ Has(Str(documentType), "APS")
    THEN RD_apsPatterns
    ELSE <<>>

\* where the group of a match that starts at i may begin: after a prefix that
\* leaves the group something to match
RD_groupStarts(pattern, chars, i) ==
    {e \in MatchEnds(pattern.prefix, chars, i, TRUE) :
        IF pattern.group = "lazy" THEN e < Len(chars)
        ELSE MatchEnds(pattern.re, chars, e, TRUE) # {}}

\* where a match of the pattern may start
RD_starts(pattern, chars) ==
    {i \in 0..Len(chars) :
        IF pattern.group = "none" THEN MatchEnds(pattern.re, chars, i, TRUE) # {}
        ELSE RD_groupStarts(pattern, chars, i) # {}}

\* match[1] || match[0] of documentText.match(pattern), for a pattern that
\* matches: the quantifiers before the group take as much as they can
RD_matched(pattern, chars) ==
    LET i == Min(RD_starts(pattern, chars))
    IN  IF pattern.group = "none"
        THEN SubSeq(chars, i + 1, Max(MatchEnds(pattern.re, chars, i, TRUE)))
        ELSE LET e == Max(RD_groupStarts(pattern, chars, i))
             IN  IF pattern.group = "greedy"
                 THEN SubSeq(chars, e + 1, Max(MatchEnds(pattern.re, chars, e, TRUE)))
                 ELSE SubSeq(chars, e + 1,
                             Min({k \in (e + 1)..Len(chars) :
                                     \/ k = Len(chars)
                                     \/ MatchEnds(pattern.re, chars, k, TRUE) # {}}))

\* String.prototype.trim
RECURSIVE TrimChars(_)
TrimChars(chars) ==
    IF chars = <<>> THEN chars
    ELSE IF chars[1] \in Whitespace THEN TrimChars(Tail(chars))
    ELSE IF chars[Len(chars)] \in Whitespace THEN TrimChars(SubSeq(chars, 1, Len(chars) - 1))
    ELSE chars

\* analyzeField(documentText, fieldName, patterns), from the j-th pattern on
RECURSIVE RD_analyzeFieldFrom(_, _, _, _)
RD_analyzeFieldFrom(chars, fieldName, patterns, j) ==
    IF j > Len(patterns)
    THEN [fieldName |-> fieldName, value |-> <<>>, isFilled |-> FALSE,
          confidence |-> Ratio(0, 10), pattern |-> "No pattern matched"]
    ELSE IF RD_starts(patterns[j], chars) = {}
    THEN RD_analyzeFieldFrom(chars, fieldName, patterns, j + 1)
    ELSE LET value == RD_matched(patterns[j], chars)
             isFilled == /\ TrimChars(value) # <<>>
                         /\ ~Has(value, "___")
                         /\ ~Has(value, "_")
                         /\ Len(value) > 2
         IN  [fieldName |-> fieldName, value |-> TrimChars(value), isFilled |-> isFilled,
              confidence |-> IF isFilled THEN Ratio(9, 10) ELSE Ratio(1, 10),
              pattern |-> patterns[j].source]

RD_analyzeField(chars, fieldName, patterns) == RD_analyzeFieldFrom(chars, fieldName, patterns, 1)

\* the names of the fields of a type
RD_fieldNames(fieldPatterns) == {fieldPatterns[i].fieldName : i \in 1..Len(fieldPatterns)}

RD_patternsOf(fieldPatterns, fieldName) ==
    fieldPatterns[CHOOSE i \in 1..Len(fieldPatterns) : fieldPatterns[i].fieldName = fieldName]
        .patterns

\* analyzeDocumentFields up to storeFieldAnalysis: the two Maps as objects
RD_fieldAnalysis(chars, documentType, today) ==
    LET fieldPatterns == RD_getFieldPatterns(documentType)
        results == [f \in RD_fieldNames(fieldPatterns) |->
                       RD_analyzeField(chars, f, RD_patternsOf(fieldPatterns, f))]
    IN  [documentType |-> documentType,
         extractedText |-> chars,
         fields |-> results,
         fieldStatus |-> [f \in DOMAIN results |-> results[f].isFilled],
         analysisTimestamp |-> today]

\* extractedText.substring(0, 1000)
RD_textLimit == 1000

\* storeFieldAnalysis(fieldAnalysis): the document it returns and localStorage
\* after it
RD_storeFieldAnalysis(storage, fieldAnalysis, today, random) ==
    LET cosmosDocument ==
            [id |-> Concat(<<Str("doc_"), NumChars(today), Str("_"), Str(random)>>),
             documentType |-> fieldAnalysis.documentType,
             analysisTimestamp |-> fieldAnalysis.analysisTimestamp,
             fields |-> fieldAnalysis.fields,
             fieldStatus |-> fieldAnalysis.fieldStatus,
             extractedText |->
                 SubSeq(fieldAnalysis.extractedText, 1,
                        Min({RD_textLimit, Len(fieldAnalysis.extractedText)})),
             partitionKey |-> fieldAnalysis.documentType]
    IN  [document |-> cosmosDocument,
         storage |-> MapSet(storage, "documentAnalysis",
                            Append(SL_load(storage, "documentAnalysis", <<>>),
                                   cosmosDocument))]

\* the properties that every object inherits from Object.prototype and that
\* are objects themselves: obj[name] is not undefined for them
ObjectPrototypeNames ==
    {"constructor", "toString", "valueOf", "hasOwnProperty", "isPrototypeOf",
     "propertyIsEnumerable", "toLocaleString"}

\* obj[name] = value
PropSet(obj, name, value) ==
    [k \in DOMAIN obj \cup {name} |-> IF k = name THEN value ELSE obj[k]]

\* updateFieldStatus(documentId, fieldName, isFilled): what it returns and
\* localStorage after it.  fields[fieldName] is the entry of the field, or the
\* inherited function when fieldName is a name of Object.prototype (isFilled
\* is then set on that function and the stored fields stay as they are), or
\* undefined, and then the assignment throws before setItem.
RD_updateFieldStatus(storage, documentId, fieldName, isFilled, today) ==
    LET existingData == SL_load(storage, "documentAnalysis", <<>>)
        found == {i \in 1..Len(existingData) : existingData[i].id = documentId}
    IN  IF found = {} THEN [value |-> FALSE, storage |-> storage]
        ELSE LET docIndex == Min(found)
                 doc == existingData[docIndex]
             IN  IF fieldName \notin DOMAIN doc.fields \cup ObjectPrototypeNames
                 THEN [value |-> FALSE, storage |-> storage]
                 ELSE [value |-> TRUE,
                       storage |->
                          MapSet(storage, "documentAnalysis",
                                 [existingData EXCEPT
                                     ![docIndex] =
                                         PropSet([doc EXCEPT
                                                     !.fieldStatus =
                                                         PropSet(@, fieldName, isFilled),
                                                     !.fields =
                                                         IF fieldName \in DOMAIN @
                                                         THEN [@ EXCEPT ![fieldName].isFilled =
                                                                            isFilled]
                                                         ELSE @],
                                                 "lastUpdated", today)])]

(***************************************************************************)
(* function-app.js: POST /api/qa                                           *)
(***************************************************************************)
\* extractedData && extractedData.name
HasAnalysis(data, name) == data # Null /\ data[name] # Null

\* ... && completeness.missingRequired.length > 0
FA_hasMissing(data) ==
    HasAnalysis(data, "fieldCompleteness")
    /\ Len(data.fieldCompleteness.completeness.missingRequired) > 0

\* ... && validityCheck.issues.length > 0
FA_hasIssues(data) ==
    HasAnalysis(data, "validityCheck") /\ Len(data.validityCheck.issues) > 0

FA_missingList(data) ==
    Join(FieldTexts(data.fieldCompleteness.completeness.missingRequired), Str(", "))

FA_issueList(data) == Join(IssueTexts(data.validityCheck.issues), Str(", "))

\* the summary above "### Answer"
FA_qaSummary(documentType, data) ==
    Concat(<<
        Str("### Document Analysis Summary\n\n"),
        Str("**Document Type:** "), Str(documentType), Str("\n\n"),
        IF HasAnalysis(data, "fieldCompleteness")
        THEN Concat(<<Str("**Completeness:** "),
                      Str(data.fieldCompleteness.completeness.status), Str(" ("),
                      NumChars(data.fieldCompleteness.completeness.score), Str("%)\n"),
                      IF FA_hasMissing(data)
                      THEN Concat(<<Str("**Missing Required Fields:** "), FA_missingList(data),
                                    Str("\n")>>)
                      ELSE <<>> >>)
        ELSE <<>>,
        IF HasAnalysis(data, "validityCheck")
        THEN Concat(<<Str("**Validity Status:** "), Str(data.validityCheck.status), Str(" ("),
                      NumChars(data.validityCheck.score), Str("%)\n"),
                      IF FA_hasIssues(data)
                      THEN Concat(<<Str("**Issues:** "), FA_issueList(data), Str("\n")>>)
                      ELSE <<>> >>)
        ELSE <<>> >>)

\* the if/else chain on the question
FA_qaAnswer(q, documentType, data) ==
    IF Has(q, "what") /\ Has(q, "document")
    THEN Concat(<<
        Str("This is a **"), Str(documentType), Str("** document. "),
        IF HasAnalysis(data, "fieldCompleteness")
        THEN Concat(<<Str("The document is "),
                      toLowerCase(Str(data.fieldCompleteness.completeness.status)),
                      Str(" with a completeness score of "),
                      NumChars(data.fieldCompleteness.completeness.score), Str("%. ")>>)
        ELSE <<>>,
        IF HasAnalysis(data, "validityCheck")
        THEN Concat(<<Str("The validity status is "),
                      toLowerCase(Str(data.validityCheck.status)), Str(".")>>)
        ELSE <<>> >>)
    ELSE IF Has(q, "missing") \/ Has(q, "incomplete")
    THEN Concat(<<
        IF FA_hasMissing(data)
        THEN Concat(<<Str("The following required fields are missing: "),
                      FA_missingList(data), Str(". ")>>)
        ELSE Str("No missing required fields detected. "),
        IF FA_hasIssues(data)
        THEN Concat(<<Str("However, there are validity issues: "), FA_issueList(data),
                      Str(".")>>)
        ELSE <<>> >>)
    ELSE IF Has(q, "valid") \/ Has(q, "ready")
    THEN IF HasAnalysis(data, "validityCheck")
         THEN Concat(<<
            Str("The document validity status is **"), Str(data.validityCheck.status),
            Str("** with a score of "), NumChars(data.validityCheck.score), Str("%. "),
            IF Len(data.validityCheck.issues) = 0
            THEN Str("The document appears to be ready for use.")
            ELSE Concat(<<Str("Please address the following issues: "), FA_issueList(data),
                          Str(".")>>)>>)
         ELSE <<>>
    ELSE Str("Based on the document analysis, I can provide information about the document type, completeness, and validity. Please ask specific questions about what you need to know.")

FA_qaNextSteps(data) ==
    Concat(<<
        Str("\n\n### Next Steps\n\n"),
        IF FA_hasMissing(data)
        THEN Concat(<<Str("- Complete the missing required fields: "), FA_missingList(data),
                      Str("\n")>>)
        ELSE <<>>,
        IF FA_hasIssues(data)
        THEN Concat(<<Str("- Address the validity issues: "), FA_issueList(data), Str("\n")>>)
        ELSE <<>>,
        Str("- Review the document one final time\n"),
        Str("- Ensure all parties have signed if required\n"),
        Str("- Make copies for your records\n")>>)

\* the JSON that POST /api/qa answers with
FA_qa(questionText, documentType, extractedData, today) ==
    [answerMarkdown |->
        Concat(<<FA_qaSummary(documentType, extractedData),
                 Str("\n### Answer\n\n"),
                 FA_qaAnswer(toLowerCase(questionText), documentType, extractedData),
                 FA_qaNextSteps(extractedData)>>),
     timestamp |-> today,
     documentType |-> documentType]

(***************************************************************************)
(* HTTP: what a handler answers                                            *)
(***************************************************************************)
\* res.status(status).json(body); res.json(body) is status 200
Response(status, body) == [responded |-> TRUE, status |-> status, body |-> body]

\* the request has not been answered
NoResponse == [responded |-> FALSE]

(***************************************************************************)
(* function-app.js: POST /api/ScanDoc                                      *)
(***************************************************************************)
\* mockText, the template literal of the handler with the indentation of its lines
FA_mockText ==
    JoinLines(<<"Agreement of Purchase and Sale",
                "    Property Address: 123 Main Street, Toronto, ON",
                "    Purchase Price: $750,000",
                "    Closing Date: June 15, 2024",
                "    Buyer: John Smith",
                "    Seller: Jane Doe",
                "    Deposit: $37,500",
                "    Buyer Signature: [Signed]",
                "    Seller Signature: [Signed]">>)

\* the result object built from the three analyses
FA_scanResult(classification, completeness, validityCheck, today) ==
    [documentType |-> classification.documentType,
     classificationConfidence |-> classification.confidence,
     fieldCompleteness |-> [completeness |-> completeness],
     validityCheck |-> validityCheck,
     jurisdiction |-> classification.jurisdiction,
     issueDate |-> "2024-01-15",
     expiryDate |-> "2024-12-31",
     validityStatus |-> validityCheck.status,
     reasons |->
        <<Concat(<<Str("Document type: "), Str(classification.documentType)>>),
          Concat(<<Str("Completeness: "), Str(completeness.status), Str(" ("),
                   NumChars(completeness.score), Str("%)")>>),
          Concat(<<Str("Validity: "), Str(validityCheck.status), Str(" ("),
                   NumChars(validityCheck.score), Str("%)")>>),
          IF Len(validityCheck.issues) > 0
          THEN Concat(<<Str("Issues: "), Join(IssueTexts(validityCheck.issues), Str(", "))>>)
          ELSE Str("No issues found")>>,
     suggestedActions |->
        <<IF Len(completeness.missingRequired) > 0
          THEN Concat(<<Str("Complete missing fields: "),
                        Join(FieldTexts(completeness.missingRequired), Str(", "))>>)
          ELSE Str("All required fields present"),
          IF Len(validityCheck.issues) > 0 THEN Str("Address validity issues")
          ELSE Str("Document appears valid")>>,
     correlationId |-> Concat(<<Str("doc_"), NumChars(today)>>),
     timestamp |-> today]

\* the analyses of the mock text under the type that the file name gives
FA_analyze(classification, today) ==
    FA_scanResult(classification,
                  FA_checkFieldCompleteness(FA_mockText, classification.documentType),
                  FA_checkDocumentValidity(FA_mockText, classification.documentType),
                  today)

\* the handler; nothing in its try block throws, so its catch (500) is not taken
FA_scanDoc(file, today) ==
    IF file = Null THEN Response(400, [error |-> "No file uploaded"])
    ELSE Response(200, FA_analyze(FA_identifyDocumentType(FA_mockText, Str(file.originalname)),
                                  today))

(***************************************************************************)
(* simple-server.js, the server of lines 1-272: POST /api/ScanDoc          *)
(***************************************************************************)
\* JSON.parse of the context field of the form: ok is FALSE when it throws
JSON_parse(s) ==
    CASE s = "{}" -> [ok |-> TRUE, value |-> EmptyObject]
      [] s = "{\"jurisdiction\":\"BC\"}" -> [ok |-> TRUE, value |-> [jurisdiction |-> "BC"]]
      [] s = "{\"jurisdiction\":\"\"}" -> [ok |-> TRUE, value |-> [jurisdiction |-> ""]]
      [] s = "null" -> [ok |-> TRUE, value |-> Null]
      [] s = "{\"documentType\":\"Residential Lease Agreement\",\"confidence\":0.95}"
            -> [ok |-> TRUE,
                value |-> [documentType |-> LEASE, confidence |-> Ratio(95, 100)]]
      [] s = "{\"documentType\":\"Power of Attorney\",\"confidence\":0.4,\"jurisdiction\":\"BC\"}"
            -> [ok |-> TRUE,
                value |-> [documentType |-> "Power of Attorney", confidence |-> Ratio(4, 10),
                           jurisdiction |-> "BC"]]
      [] OTHER -> [ok |-> FALSE, value |-> Undefined]

\* userContext before the context of the request is read
SSM_defaultContext ==
    [purpose |-> "Property ownership", jurisdiction |-> "Ontario", partyType |-> "Buyer",
     issuerHint |-> "OREA", recencyRequirementDays |-> Null]

\* the catch block of the callback
SSM_failed == Response(500, [error |-> "Failed to process document"])

\* the result object
SSM_scanResult(detected, userContext, today, random) ==
    [documentType |-> detected.type,
     classificationConfidence |-> detected.confidence,
     issueDate |-> "2025-01-15",
     expiryDate |-> "2025-12-31",
     validityStatus |-> "Valid",
     reasons |->
        <<Concat(<<Str("Document type detected: "), Str(detected.type)>>),
          Concat(<<Str("Confidence level: "),
                   NumChars(RoundPercent(detected.confidence.num, detected.confidence.den)),
                   Str("%")>>),
          Str("All required fields appear to be present")>>,
     suggestedActions |->
        <<Str("Review document for completeness"), Str("Verify all signatures are present"),
          Str("Check dates for accuracy")>>,
     userContext |-> userContext,
     correlationId |-> Concat(<<Str("corr_"), NumChars(today), Str("_"), Str(random)>>)]

\* the try block once userContext is known: req.files.file[0] throws a TypeError
\* when no file was uploaded, userContext.jurisdiction when the context is null
SSM_respond(req, userContext, today, random) ==
    IF req.file = Null \/ userContext = Null THEN SSM_failed
    ELSE Response(200, SSM_scanResult(SSM_detectDocumentType(Str(req.file.originalname)),
                                      userContext, today, random))

\* the callback of setTimeout; the context "" stands for a form without the field
SSM_timeout(req, today, random) ==
    IF req.context = "" THEN SSM_respond(req, SSM_defaultContext, today, random)
    ELSE IF ~JSON_parse(req.context).ok THEN SSM_failed
    ELSE SSM_respond(req, JSON_parse(req.context).value, today, random)

(***************************************************************************)
(* azure-deploy.js: POST /api/ScanDoc                                      *)
(***************************************************************************)
\* String.prototype.replace(sub, rep) of a string pattern: the first occurrence
ReplaceFirst(s, sub, rep) ==
    IF ~includes(s, sub) THEN s
    ELSE LET i == CHOOSE k \in 0..Len(s) :
                      OccursAt(s, sub, k) /\ \A j \in 0..(k - 1) : ~OccursAt(s, sub, j)
         IN  SubSeq(s, 1, i) \o rep \o SubSeq(s, i + Len(sub) + 1, Len(s))

\* \w
IsWordChar(c) == c \in Letters \cup Digits \cup {"_"}

\* replace(/[-_.]/g, ' ')
AD_spaced(s) == [i \in 1..Len(s) |-> IF s[i] \in {"-", "_", "."} THEN " " ELSE s[i]]

\* replace(/\b\w/g, l => l.toUpperCase())
AD_capitalised(s) ==
    [i \in 1..Len(s) |->
        IF IsWordChar(s[i]) /\ (i = 1 \/ ~IsWordChar(s[i - 1])) THEN UpperChar(s[i]) ELSE s[i]]

AD_documentType(fname) == AD_capitalised(AD_spaced(ReplaceFirst(fname, Str(".pdf"), <<>>)))

\* extractedData
AD_extractedData(fname) ==
    [documentType |-> AD_documentType(fname),
     classificationConfidence |-> Ratio(9, 10),
     issueDate |-> "2024-01-01",
     expiryDate |-> "2025-01-01",
     jurisdiction |-> "Ontario",
     purchasePrice |-> "$500,000",
     closingDate |-> "2024-06-01",
     buyerName |-> "John Doe",
     sellerName |-> "Jane Smith",
     reasons |-> <<"Document appears complete">>,
     validityStatus |-> "Valid"]

\* what becomes of a request whose async handler threw before it answered: the
\* handler has no try block.  Express 4 drops the rejected promise and the
\* request stays unanswered; Express 5 hands the error to its error handler,
\* which answers 500.  The source does not fix the version of Express.
AD_rejected == {NoResponse, Response(500, [error |-> "TypeError"])}

\* the outcomes of the handler: req.files.file[0] throws a TypeError when no file
\* was uploaded
AD_scanDoc(file) ==
    IF file = Null THEN AD_rejected
    ELSE {Response(200, AD_extractedData(Str(file.originalname)))}

(***************************************************************************)
(* simple-server.js, the server of lines 275-1058: POST /api/ScanDoc.  The  *)
(* services it calls answer as the variable upstream says.                  *)
(***************************************************************************)
\* the words of the mock analyzeResult
SSA_mockWords ==
    <<"Agreement", "of", "Purchase", "and", "Sale", "Property", "Address:", "123", "Main",
      "Street", "Toronto,", "ON", "Purchase", "Price:", "$750,000", "Closing", "Date:",
      "2024-06-15">>

SSA_maxAttempts == 30

\* statusResponse.data.status of the poll after attempts polls that saw
\* neither 'succeeded' nor 'failed'
SSA_status(service, attempts) ==
    IF attempts + 1 < service.doneAt THEN "running" ELSE service.final

\* the while loop of analyzeDocumentWithAI, from its test on
RECURSIVE SSA_poll(_, _)
SSA_poll(service, attempts) ==
    IF attempts >= SSA_maxAttempts THEN Threw("Document analysis timed out")
    ELSE IF SSA_status(service, attempts) = "succeeded"
    THEN Returned([words |-> service.words, polls |-> attempts + 1])
    ELSE IF SSA_status(service, attempts) = "failed" THEN Threw("Document analysis failed")
    ELSE IF SSA_status(service, attempts) = "error" THEN Threw("Request failed")
    ELSE SSA_poll(service, attempts + 1)

\* analyzeDocumentWithAI: its catch logs the error and throws it again
SSA_analyzeDocumentWithAI(service) ==
    IF ~service.configured THEN Returned([words |-> SSA_mockWords, polls |-> 0])
    ELSE IF service.post = "error" THEN Threw("Request failed")
    ELSE SSA_poll(service, 0)

\* extractTextFromAnalysis: text += word.content + ' ' for every word, then trim()
SSA_extractTextFromAnalysis(words) ==
    Join([i \in 1..Len(words) |-> Str(words[i])], <<" ">>)

\* the classification that identifyDocumentType returns from the reply of the
\* model.  A property that is read as an object key or inside a template literal
\* is the string "undefined" when the reply has none.
SS_classification(reply) ==
    [documentType |-> IF HasProp(reply, "documentType") THEN reply.documentType
                      ELSE "undefined",
     confidence |-> IF HasProp(reply, "confidence") THEN reply.confidence ELSE Undefined,
     jurisdiction |-> IF HasProp(reply, "jurisdiction") THEN reply.jurisdiction ELSE ""]

\* identifyDocumentType(documentText, filename): with a key it asks the model and
\* parses its reply, and whatever throws there (the request, JSON.parse, reading
\* classification.documentType of null) ends in the catch, which answers from
\* the filename as the keyless branch does
SS_identifyDocumentType(fname, openai) ==
    IF ~openai.configured \/ openai.reply = "error"
    THEN SS_detectDocumentTypeFromFilename(fname)
    ELSE IF ~JSON_parse(openai.reply).ok \/ JSON_parse(openai.reply).value = Null
    THEN SS_detectDocumentTypeFromFilename(fname)
    ELSE SS_classification(JSON_parse(openai.reply).value)

\* an issue as the handler prints it
SS_issueText(issue) ==
    IF Len(issue) = 1 THEN Str(issue[1])
    ELSE IF issue[1] = "Invalid form number"
    THEN Concat(<<Str(issue[1]), Str(": "), issue[2]>>)
    ELSE Concat(<<Str(issue[1]), Str(": "), Str(issue[2])>>)

SS_issueTexts(issues) == [i \in 1..Len(issues) |-> SS_issueText(issues[i])]

\* validityCheck.expiryInfo.daysUntilExpiry: set when an issue date was found
SSA_daysUntilExpiry(maxAge, ageInDays) ==
    IF ageInDays = Null THEN Null
    ELSE IF IsNumber(ageInDays) THEN Number(maxAge - ageInDays.v) ELSE NaN

\* days ? new Date(Date.now() + sign * days * 24 * 60 * 60 * 1000) : null, as the
\* number of the day
SSA_dayOrNull(today, sign, days) ==
    IF Truthy(days) THEN Number((today + sign * days.v * TicksPerDay) \div TicksPerDay)
    ELSE Null

\* the civil date of a day counted since 1970-01-01, as <<year, month, day>>
CivilFromDays(days) ==
    LET z == days + 719468
        era == z \div 146097
        doe == z - era * 146097
        yoe == (doe - doe \div 1460 + doe \div 36524 - doe \div 146096) \div 365
        doy == doe - (365 * yoe + yoe \div 4 - yoe \div 100)
        mp == (5 * doy + 2) \div 153
        d == doy - (153 * mp + 2) \div 5 + 1
        m == IF mp < 10 THEN mp + 3 ELSE mp - 9
    IN  <<IF m <= 2 THEN yoe + era * 400 + 1 ELSE yoe + era * 400, m, d>>

\* a number of less than a hundred in two digits
TwoDigits(n) == <<DigitChars[(n \div 10) + 1], DigitChars[(n % 10) + 1]>>

\* new Date().toISOString().replace(/[-:]/g, '').split('.')[0]: the instant to the
\* second as yyyymmddThhmmss
SSA_stamp(today) ==
    LET civil == CivilFromDays(today \div TicksPerDay)
        seconds == (today % TicksPerDay) * (86400 \div TicksPerDay)
    IN  Concat(<<NumChars(civil[1]), TwoDigits(civil[2]), TwoDigits(civil[3]), Str("T"),
                 TwoDigits(seconds \div 3600), TwoDigits((seconds % 3600) \div 60),
                 TwoDigits(seconds % 60)>>)

\* the result object of the handler
SSA_scanResult(classification, completeness, validityCheck, daysUntilExpiry, today) ==
    [documentType |-> classification.documentType,
     classificationConfidence |-> classification.confidence,
     fieldCompleteness |-> [completeness |-> completeness],
     validityCheck |-> validityCheck,
     jurisdiction |-> IF classification.jurisdiction = "" THEN "Ontario"
                      ELSE classification.jurisdiction,
     issueDate |-> SSA_dayOrNull(today, -1, validityCheck.expiryInfo.ageInDays),
     expiryDate |-> SSA_dayOrNull(today, 1, daysUntilExpiry),
     validityStatus |-> validityCheck.status,
     reasons |->
        <<Concat(<<Str("Document type: "), Str(classification.documentType)>>),
          Concat(<<Str("Completeness: "), Str(completeness.status), Str(" ("),
                   NumChars(completeness.score), Str("%)")>>),
          Concat(<<Str("Validity: "), Str(validityCheck.status), Str(" ("),
                   NumChars(validityCheck.score), Str("%)")>>),
          IF Len(validityCheck.issues) > 0
          THEN Concat(<<Str("Issues: "), Join(SS_issueTexts(validityCheck.issues), Str(", "))>>)
          ELSE Str("No issues found")>>,
     suggestedActions |->
        <<IF Len(completeness.missingRequired) > 0
          THEN Concat(<<Str("Complete missing fields: "),
                        Join(FieldTexts(completeness.missingRequired), Str(", "))>>)
          ELSE Str("All required fields present"),
          IF Len(validityCheck.signatureCheck.missing) > 0
          THEN Concat(<<Str("Add missing signatures: "),
                        Join(FieldTexts(validityCheck.signatureCheck.missing), Str(", "))>>)
          ELSE Str("All required signatures present"),
          IF Len(validityCheck.issues) > 0 THEN Str("Address validity issues")
          ELSE Str("Document appears valid")>>,
     correlationId |-> Concat(<<Str("doc_"), SSA_stamp(today)>>),
     timestamp |-> today]

\* steps 2 to 4 of the handler and the result they are combined into
SSA_analyze(chars, classification, today) ==
    SSA_scanResult(classification,
                   SS_checkFieldCompleteness(chars, classification.documentType),
                   SS_checkDocumentValidity(chars, classification.documentType, today),
                   SSA_daysUntilExpiry(SS_docRules(classification.documentType).maxAge,
                                       SS_ageInDays(SS_issueDate(chars), today)),
                   today)

\* the handler: every step is inside its try block, and its catch answers 500
SSA_respond(file, analysis, openai, today) ==
    IF analysis.threw
    THEN Response(500, [error |-> "Document analysis failed", details |-> analysis.message])
    ELSE Response(200, SSA_analyze(SSA_extractTextFromAnalysis(analysis.value.words),
                                   SS_identifyDocumentType(Str(file.originalname), openai),
                                   today))

SSA_scanDoc(file, services, today) ==
    IF file = Null THEN Response(400, [error |-> "No file uploaded"])
    ELSE SSA_respond(file, SSA_analyzeDocumentWithAI(services.documentIntelligence),
                     services.openai, today)

\* POST /api/qa of function-app.js for a body whose question may be missing:
\* question.toLowerCase() throws a TypeError then, and the handler has no try block
FA_qaRequest(questionWords, documentType, extractedData, today) ==
    IF questionWords = Undefined THEN AD_rejected
    ELSE {Response(200, FA_qa(QuestionChars(questionWords), documentType, extractedData, today))}

(***************************************************************************)
(* azure-deploy.js: GET /api/rules and POST /api/search/brief               *)
(***************************************************************************)
\* mockRules: the scalar properties of its one rule
AD_mockRules ==
    "Ontario-Agreement of Purchase and Sale (APS)" :>
        [id |-> "aps-on", jurisdiction |-> "Ontario", documentType |-> APS,
         docTypeCode |-> "APS",
         purposeOneLiner |-> "Set terms of a residential real estate purchase.",
         version |-> "1.0", effectiveDate |-> "2024-01-01", isSuperseded |-> FALSE,
         publisher |-> "OREA"]

AD_mockReferences ==
    <<[title |-> "OREA Form 100 - Agreement of Purchase and Sale",
       excerpt |-> "Standard form for residential real estate transactions in Ontario. Includes all required fields and legal clauses.",
       citationUrl |-> "https://www.orea.com/forms/form-100",
       jurisdiction |-> "Ontario",
       documentType |-> APS]>>

\* `${jurisdiction}-${documentType}`; a parameter the query does not have is
\* the string "undefined" here
AD_ruleKey(jurisdiction, documentType) == jurisdiction \o "-" \o documentType

\* the fallback of GET /api/rules
AD_mockRule(key) ==
    IF key \in DOMAIN AD_mockRules
    THEN Response(200, [rule |-> AD_mockRules[key], found |-> TRUE, source |-> "mock"])
    ELSE Response(200, [rule |-> Null, found |-> FALSE, source |-> "mock"])

\* GET /api/rules: cosmosClient exists when the endpoint and the key are set; a
\* query that throws ends in the catch
AD_rules(query, cosmos) ==
    IF cosmos.configured /\ cosmos.answer = "error"
    THEN Response(500, [error |-> "Failed to fetch rules"])
    ELSE IF cosmos.configured /\ Len(cosmos.resources) > 0
    THEN Response(200, [rule |-> cosmos.resources[1], found |-> TRUE, source |-> "cosmos"])
    ELSE AD_mockRule(AD_ruleKey(query.jurisdiction, query.documentType))

\* array.slice(0, n)
Slice(array, n) == SubSeq(array, 1, IF Len(array) < n THEN Len(array) ELSE n)

\* the brief of a search result; content.substring(0, 300) + '...'
AD_brief(document) ==
    [title |-> document.title,
     excerpt |-> Slice(Str(document.content), 300) \o Str("..."),
     citationUrl |-> document.sourceUrl,
     keyPhrases |-> IF HasProp(document, "keyPhrases") THEN document.keyPhrases ELSE <<>>]

\* POST /api/search/brief: searchClient exists when the endpoint and the key are
\* set; a search that throws, or a result without content, ends in the catch
AD_searchBrief(body, search) ==
    IF search.configured
    THEN IF search.answer = "error"
            \/ \E i \in 1..Len(search.results) : ~HasProp(search.results[i], "content")
         THEN Response(500, [error |-> "Search failed"])
         ELSE Response(200, [briefs |-> [i \in 1..Len(search.results) |->
                                            AD_brief(search.results[i])],
                             source |-> "azure"])
    ELSE Response(200,
                  [briefs |-> Slice(SelectSeq(AD_mockReferences,
                                              LAMBDA ref : /\ ref.jurisdiction = body.jurisdiction
                                                           /\ ref.documentType = body.docType), 3),
                   source |-> "mock"])

(***************************************************************************)
(* Inputs                                                                  *)
(***************************************************************************)
\* the lines a document text is made of
LinePool ==
    <<"Purchase Price: $750,000",
      "Buyer: John Doe",
      "Seller: Jane Smith",
      "Buyer Signature: [Signed]",
      "Seller Signature: [Signed]",
      "Closing Date: 06/15/2024",
      "Property Address: 123 Main Street, Toronto, ON",
      "Deposit: $5,000",
      "Dated: 2026-01-15">>

\* lines for the validity checks
ValidityLinePool ==
    <<"Purchase Price: $750,000",
      "Deposit: $5,000",
      "Buyer Signature: [Signed]",
      "Seller Signature: [Signed]",
      "Signed by applicant",
      "Dated: 2026-01-15",
      "Closing Date: 06/15/2024",
      "Possession: 12/31/2027",
      "Form N99",
      "Document content not available">>

\* lines for the classifiers
ClassifyLinePool ==
    <<"AGREEMENT OF PURCHASE AND SALE",
      "Purchase Price: $750,000",
      "RESIDENTIAL LEASE AGREEMENT",
      "Monthly Rent: $2,500",
      "Form A2",
      "Document content not available">>

\* a text has at most so many lines of its pool
MaxLines == 5
MaxValidityLines == 3
MaxClassifyLines == 3

\* the lines numbered by S, in the order of the pool
RECURSIVE PickLines(_, _, _)
PickLines(pool, S, i) ==
    IF i > Len(pool) THEN <<>>
    ELSE IF i \in S THEN <<pool[i]>> \o PickLines(pool, S, i + 1)
    ELSE PickLines(pool, S, i + 1)

TextsOf(pool, max) ==
    {PickLines(pool, S, 1) : S \in {T \in SUBSET (1..Len(pool)) : Cardinality(T) <= max}}

Texts == TextsOf(LinePool, MaxLines)
ValidityTexts == TextsOf(ValidityLinePool, MaxValidityLines)
ClassifyTexts == TextsOf(ClassifyLinePool, MaxClassifyLines)

FilenamePool ==
    <<"scan.pdf", "", "purchase_agreement.pdf", "Lease.pdf", "N4_form.pdf", "a2.pdf",
      "invoice_0042.pdf", "buyer_seller_price.pdf", "real estate purchase and sale.pdf",
      "deposit.pdf", "tenancy.docx">>
Filenames == {FilenamePool[i] : i \in 1..Len(FilenamePool)}

DocTypes == {APS, LEASE, LTB, "Legal Document"}
AI_DocTypes == {AI_documentPatterns[i].documentType : i \in 1..Len(AI_documentPatterns)}

\* the instants at which a check runs
NowPool == <<"2026-02-01", "2026-02-10", "2026-11-06", "2027-06-01">>
Nows == {ParseDate(Str(NowPool[i])).v + (i % TicksPerDay) : i \in 1..Len(NowPool)}

\* extracted fields handed to validateDocument
FieldNames ==
    {"purchasePrice", "closingDate", "buyerName", "sellerName", "propertyAddress",
     "depositAmount", "rentAmount", "leaseStartDate", "leaseEndDate", "tenantName",
     "landlordName"}
NoFields == [f \in FieldNames |-> ""]
FieldsPool ==
    << [purchasePrice |-> "750000", depositAmount |-> "37500", closingDate |-> "12/15/2026",
        buyerName |-> "John Doe", sellerName |-> "Jane Smith",
        propertyAddress |-> "123 Main Street, Toronto, ON"],
       [purchasePrice |-> "$750,000", depositAmount |-> "$5,000", closingDate |-> "06/15/2024",
        buyerName |-> "John Doe", sellerName |-> " ",
        propertyAddress |-> "123 Main Street, Toronto, ON"],
       [rentAmount |-> "2500", leaseStartDate |-> "2026-01-01", leaseEndDate |-> "2026-12-31",
        tenantName |-> "John Doe", landlordName |-> "Jane Smith",
        propertyAddress |-> "123 Main Street, Toronto, ON"],
       [rentAmount |-> "2500", leaseStartDate |-> "2026-01-01", leaseEndDate |-> "2026-01-15",
        tenantName |-> "John Doe", landlordName |-> "Jane Smith",
        propertyAddress |-> "123 Main Street, Toronto, ON"] >>

\* at most so many fields of a pool record are left unset
MaxUnset == 2
FieldSets ==
    {[f \in FieldNames |-> IF f \in DOMAIN FieldsPool[i] /\ f \notin U
                           THEN FieldsPool[i][f] ELSE ""] :
        i \in 1..Len(FieldsPool),
        U \in {V \in SUBSET FieldNames : Cardinality(V) <= MaxUnset}}

\* the character strings of a record of fields
FieldChars(flds) == [f \in DOMAIN flds |-> Str(flds[f])]

\* ---- questions ----
\* the words a question is made of, in this order
WordPool ==
    <<"What", "information", "is", "the", "document", "for", "missing", "incomplete",
      "complete", "validity", "ready", "price", "cost", "amount", "update", "when",
      "sometimes", "who", "party", "person", "where", "address", "location", "show",
      "process", "steps", "hello">>

\* a question has at most so many of the words
MaxWords == 2
\* the subsets of S of at most k elements
RECURSIVE SubsetsUpTo(_, _)
SubsetsUpTo(S, k) ==
    IF k = 0 THEN {{}}
    ELSE LET smaller == SubsetsUpTo(S, k - 1)
         IN  smaller \cup {T \cup {x} : T \in smaller, x \in S}

Questions == {PickLines(WordPool, S, 1) : S \in SubsetsUpTo(1..Len(WordPool), MaxWords)}

\* whole questions, as the suggestions of the chat have them
QAQuestionPool ==
    << <<"What", "is", "the", "purchase", "price?">>,
       <<"How", "much", "does", "it", "cost?">>,
       <<"When", "is", "the", "closing", "date?">>,
       <<"Who", "are", "the", "parties", "involved?">>,
       <<"Where", "is", "the", "property", "located?">>,
       <<"What", "is", "this", "document", "for?">>,
       <<"What", "information", "is", "missing?">>,
       <<"Is", "this", "document", "valid?">>,
       <<"Is", "anything", "incomplete?">>,
       <<"How", "do", "I", "proceed?">>,
       <<"Hello">> >>
QAQuestions == {QAQuestionPool[i] : i \in 1..Len(QAQuestionPool)}

QADocTypes == {APS, LEASE, "Fee Waiver Request", "Legal Document"}

\* the texts whose analysis a documentData carries
QATextPool ==
    << <<"Purchase Price: $750,000", "Buyer: John Doe", "Seller: Jane Smith",
         "Buyer Signature: [Signed]", "Seller Signature: [Signed]",
         "Closing Date: 06/15/2024", "Property Address: 123 Main Street, Toronto, ON",
         "Deposit: $5,000">>,
       <<"Purchase Price: $750,000", "Buyer: John Doe", "Buyer Signature: [Signed]">> >>

PricePool == <<"", "$500,000", "$750,000">>
DepositPool == <<"", "$37,500">>

\* the extracted fields of a documentData, none or all of them
DetailsPool ==
    <<[closingDate |-> "", buyerName |-> "", sellerName |-> "", propertyAddress |-> "",
       issueDate |-> "", expiryDate |-> "", jurisdiction |-> ""],
      [closingDate |-> "2024-06-01", buyerName |-> "John Doe", sellerName |-> "Jane Smith",
       propertyAddress |-> "123 Main Street, Toronto, ON", issueDate |-> "2024-01-01",
       expiryDate |-> "2025-01-01", jurisdiction |-> "Ontario"]>>

\* the analyses of a documentData: none, or those of function-app.js on a text
Analyses(documentType) ==
    {[fieldCompleteness |-> Null, validityCheck |-> Null]} \cup
    {[fieldCompleteness |->
          [completeness |-> FA_checkFieldCompleteness(TextChars(QATextPool[i]), documentType)],
      validityCheck |-> FA_checkDocumentValidity(TextChars(QATextPool[i]), documentType)] :
        i \in 1..Len(QATextPool)}

\* the analysis results a question is asked against: none, or one of the type
DocumentDatas(documentType) ==
    {Null} \cup
    {[documentType |-> documentType, classificationConfidence |-> Ratio(9, 10),
      purchasePrice |-> PricePool[p], depositAmount |-> DepositPool[d],
      closingDate |-> DetailsPool[x].closingDate, buyerName |-> DetailsPool[x].buyerName,
      sellerName |-> DetailsPool[x].sellerName,
      propertyAddress |-> DetailsPool[x].propertyAddress,
      issueDate |-> DetailsPool[x].issueDate, expiryDate |-> DetailsPool[x].expiryDate,
      jurisdiction |-> DetailsPool[x].jurisdiction,
      fieldCompleteness |-> a.fieldCompleteness, validityCheck |-> a.validityCheck] :
        p \in 1..Len(PricePool), d \in 1..Len(DepositPool), x \in 1..Len(DetailsPool),
        a \in Analyses(documentType)}

\* localStorage of the browser: empty, or with the metrics of an earlier session
LocalStorages ==
    {<<>>,
     [learning_metrics |-> [totalInteractions |-> 3, correctPredictions |-> 0,
                            accuracy |-> Ratio(85, 100), learningRate |-> Ratio(1, 10),
                            lastUpdated |-> 0]]}

\* ---- requests ----
\* the context field of the upload form; "" when the form has none
ContextPool == <<"", "{}", "{\"jurisdiction\":\"BC\"}", "null", "{oops">>

NoRequest == [file |-> Null, context |-> ""]
Requests ==
    {[file |-> f, context |-> ContextPool[c]] :
        f \in {Null} \cup {[originalname |-> n] : n \in Filenames},
        c \in 1..Len(ContextPool)}

\* ---- the services behind the server ----
\* the words Document Intelligence reads from the upload
WordsPool ==
    << <<>>,
       SSA_mockWords,
       <<"Residential", "Lease", "Agreement", "Tenant:", "Ann", "Lee", "Landlord:", "Bob",
         "Ray", "Dated", "2026-01-20", "Tenant", "Signature:", "[Signed]">> >>

\* the poll at which the analysis is over, the last of them after maxAttempts polls
DoneAtPool == <<1, 30, 31>>

\* Document Intelligence: without a key, refusing the request, or answering the
\* polls with 'running' until the analysis is over
DocumentIntelligences ==
    {[configured |-> FALSE, post |-> "ok", doneAt |-> 1, final |-> "succeeded", words |-> <<>>],
     [configured |-> TRUE, post |-> "error", doneAt |-> 1, final |-> "succeeded", words |-> <<>>]}
    \cup {[configured |-> TRUE, post |-> "ok", doneAt |-> DoneAtPool[d], final |-> "succeeded",
           words |-> WordsPool[w]] : d \in 1..Len(DoneAtPool), w \in 1..Len(WordsPool)}
    \cup {[configured |-> TRUE, post |-> "ok", doneAt |-> DoneAtPool[d], final |-> f,
           words |-> <<>>] : d \in 1..Len(DoneAtPool), f \in {"failed", "error"}}

\* response.data.choices[0].message.content; "error" when the request fails
ReplyPool ==
    <<"error", "null", "{oops", "{}",
      "{\"documentType\":\"Residential Lease Agreement\",\"confidence\":0.95}",
      "{\"documentType\":\"Power of Attorney\",\"confidence\":0.4,\"jurisdiction\":\"BC\"}">>

OpenAIs ==
    {[configured |-> FALSE, reply |-> "error"]}
    \cup {[configured |-> TRUE, reply |-> ReplyPool[r]] : r \in 1..Len(ReplyPool)}

\* Cosmos DB: without endpoint or key, failing, or answering the query
NoCosmos == [configured |-> FALSE, answer |-> "ok", resources |-> <<>>]
Cosmoses ==
    {NoCosmos,
     [configured |-> TRUE, answer |-> "error", resources |-> <<>>],
     [configured |-> TRUE, answer |-> "ok", resources |-> <<>>],
     [configured |-> TRUE, answer |-> "ok",
      resources |-> <<[id |-> "lease-on", jurisdiction |-> "Ontario", documentType |-> LEASE]>>]}

\* Azure Search: without endpoint or key, failing, or answering the search
NoSearch == [configured |-> FALSE, answer |-> "ok", results |-> <<>>]
Searches ==
    {NoSearch,
     [configured |-> TRUE, answer |-> "error", results |-> <<>>],
     [configured |-> TRUE, answer |-> "ok", results |-> <<>>],
     [configured |-> TRUE, answer |-> "ok",
      results |-> <<[title |-> "Form 100", content |-> "Standard form", sourceUrl |-> "#"]>>],
     [configured |-> TRUE, answer |-> "ok",
      results |-> <<[title |-> "Form 100", sourceUrl |-> "#"]>>]}

NoServices ==
    [documentIntelligence |-> [configured |-> FALSE, post |-> "ok", doneAt |-> 1,
                               final |-> "succeeded", words |-> <<>>],
     openai |-> [configured |-> FALSE, reply |-> "error"],
     cosmos |-> NoCosmos,
     search |-> NoSearch]

\* the query of GET /api/rules and the body of POST /api/search/brief
Lookups ==
    [jurisdiction : {"Ontario", "BC", "undefined"}, documentType : {APS, LEASE},
     docType : {APS, LEASE}, query : {"deposit"}]

\* ---- the page that analyses, trains and chats ----
\* the files analysed for the page
UploadPool == <<"purchase_agreement.pdf", "scan.pdf">>

\* how often the page analyses a file, asks a question and starts a training
MaxUploads == 1
MaxChats == 1
MaxTrainings == 2

\* Math.random().toString(36).substr(2, 9)
RandomPool == <<"k3x9q2m1a", "z0">>


(***************************************************************************)
(* The analyzers as a service: the inputs are drawn at the start and one   *)
(* operation is applied to them.                                           *)
(***************************************************************************)
NoResult == [none |-> TRUE]

\* the operation returns value
Return(name, value) ==
    /\ op = "none"
    /\ op' = name
    /\ result' = value
    /\ UNCHANGED inputs

\* an operation that changes nothing
Apply(name, value) == Return(name, value) /\ UNCHANGED systems

\* no text is analysed
NoAnalysis ==
    /\ text = <<>>
    /\ filename = ""
    /\ fields = NoFields

\* no question is asked
NoChat ==
    /\ question = <<>>
    /\ documentData = Null
    /\ localStorage = <<>>
    /\ chatSystem = EC_constructor
    /\ learningSystem = SL_constructor(<<>>, 0)

\* nothing is analysed for the page and nothing is trained
NoCalls ==
    [analyze |-> 0, chat |-> 0, train |-> 0, failed |-> 0, ignored |-> 0, feedback |-> 0]

\* the buttons as createDashboardElement writes them: Stop Training is disabled
TD_constructor == [startDisabled |-> FALSE, stopDisabled |-> TRUE]

NoTraining ==
    /\ aiAnalyzer = AI_constructor
    /\ trainingSystem = TR_constructor
    /\ calls = NoCalls
    /\ dashboard = TD_constructor

\* the server has received no request
NoRequests == inflight = <<>>

\* no request is made
NoHttp ==
    /\ request = NoRequest
    /\ upstream = NoServices
    /\ timer = "none"

\* ---- classification ----
InitClassify ==
    /\ text \in ClassifyTexts
    /\ filename \in Filenames
    /\ docType = ""
    /\ now = 0
    /\ fields = NoFields
    /\ NoChat
    /\ NoHttp
    /\ NoTraining
    /\ NoRequests
    /\ op = "none"
    /\ result = NoResult

FAIdentifyDocumentType ==
    Apply("FA_identifyDocumentType", FA_identifyDocumentType(TextChars(text), Str(filename)))

MLClassify ==
    Apply("ML_classify", ML_classify(Str(filename)))

AIClassifyDocument ==
    Apply("AI_classifyDocument", AI_classifyDocument(TextChars(text), Str(filename)))

NextClassify == FAIdentifyDocumentType \/ MLClassify \/ AIClassifyDocument

SpecClassify == InitClassify /\ [][NextClassify]_vars

\* ---- completeness ----
InitComplete ==
    /\ text \in Texts
    /\ filename = ""
    /\ docType \in DocTypes \cup AI_DocTypes
    /\ now = 0
    /\ fields = NoFields
    /\ NoChat
    /\ NoHttp
    /\ NoTraining
    /\ NoRequests
    /\ op = "none"
    /\ result = NoResult

FACheckFieldCompleteness ==
    Apply("FA_checkFieldCompleteness", FA_checkFieldCompleteness(TextChars(text), docType))

AIAnalyzeFieldCompleteness ==
    Apply("AI_analyzeFieldCompleteness", AI_analyzeFieldCompleteness(TextChars(text), docType))

NextComplete == FACheckFieldCompleteness \/ AIAnalyzeFieldCompleteness

SpecComplete == InitComplete /\ [][NextComplete]_vars

\* ---- validity ----
InitValidity ==
    /\ \/ text \in ValidityTexts /\ fields = NoFields
       \/ text = <<>> /\ fields \in FieldSets
    /\ filename = ""
    /\ docType \in DocTypes
    /\ now \in Nows
    /\ NoChat
    /\ NoHttp
    /\ NoTraining
    /\ NoRequests
    /\ op = "none"
    /\ result = NoResult

FACheckDocumentValidity ==
    Apply("FA_checkDocumentValidity", FA_checkDocumentValidity(TextChars(text), docType))

SSCheckDocumentValidity ==
    Apply("SS_checkDocumentValidity", SS_checkDocumentValidity(TextChars(text), docType, now))

AIAnalyzeValidity ==
    Apply("AI_analyzeValidity", AI_analyzeValidity(TextChars(text), docType, now))

DBValidateDocument ==
    Apply("DB_validateDocument", DB_validateDocument(docType, FieldChars(fields), now))

NextValidity ==
    FACheckDocumentValidity \/ SSCheckDocumentValidity \/ AIAnalyzeValidity \/ DBValidateDocument

SpecValidity == InitValidity /\ [][NextValidity]_vars

\* ---- function-app.js: completeness and validity of one text ----
NextFA == FACheckFieldCompleteness \/ FACheckDocumentValidity

SpecFA == InitComplete /\ [][NextFA]_vars

\* ---- the question classifier of the chat ----
InitIntent ==
    /\ NoAnalysis
    /\ docType = ""
    /\ now = 0
    /\ question \in Questions
    /\ documentData = Null
    /\ localStorage = <<>>
    /\ chatSystem = EC_constructor
    /\ learningSystem = SL_constructor(localStorage, now)
    /\ NoHttp
    /\ NoTraining
    /\ NoRequests
    /\ op = "none"
    /\ result = NoResult

ECClassifyQuestion ==
    Apply("EC_classifyQuestion", EC_classifyQuestion(QuestionChars(question)))

NextIntent == ECClassifyQuestion

SpecIntent == InitIntent /\ [][NextIntent]_vars

\* ---- questions and answers ----
InitQA ==
    /\ NoAnalysis
    /\ docType \in QADocTypes
    /\ now \in Nows
    /\ question \in QAQuestions
    /\ documentData \in DocumentDatas(docType)
    /\ localStorage \in LocalStorages
    /\ chatSystem = EC_constructor
    /\ learningSystem = SL_constructor(localStorage, now)
    /\ NoHttp
    /\ NoTraining
    /\ NoRequests
    /\ op = "none"
    /\ result = NoResult

\* EnhancedChatSystem.processQuestion(question, documentData)
ECProcessQuestion ==
    \E out \in {EC_processQuestion(chatSystem, QuestionChars(question), documentData, now)} :
        /\ Return("EC_processQuestion", out.response)
        /\ chatSystem' = out.system
        /\ UNCHANGED <<learningSystem, localStorage, timer, training, inflight>>

\* SelfLearningSystem.generateResponse(question, documentType, documentData)
SLGenerateResponse ==
    \E out \in {SL_generateResponse(learningSystem, QuestionChars(question), docType,
                                    documentData, now)} :
        /\ Return("SL_generateResponse", out.response)
        /\ learningSystem' = out.system
        /\ localStorage' = SL_save(localStorage, out.system)
        /\ UNCHANGED <<chatSystem, timer, training, inflight>>

\* POST /api/qa of function-app.js with the body {question, documentType, extractedData}
FAQa ==
    Apply("FA_qa", Response(200, FA_qa(QuestionChars(question), docType, documentData, now)))

NextQA == ECProcessQuestion \/ SLGenerateResponse \/ FAQa

SpecQA == InitQA /\ [][NextQA]_vars

\* ---- POST /api/ScanDoc ----
InitHttp ==
    /\ NoAnalysis
    /\ docType = ""
    /\ now \in Nows
    /\ NoChat
    /\ request \in Requests
    /\ upstream = NoServices
    /\ timer = "none"
    /\ NoTraining
    /\ NoRequests
    /\ op = "none"
    /\ result = NoResult

\* function-app.js
FAScanDoc ==
    Apply("FA_ScanDoc", FA_scanDoc(request.file, now))

\* simple-server.js (mock responses): the handler only sets the timer
SSMScanDoc ==
    /\ Return("SSM_ScanDoc", NoResponse)
    /\ timer' = "scheduled"
    /\ UNCHANGED <<chatSystem, learningSystem, localStorage, training, inflight>>

\* the callback of the timer answers the request
SSMTimeout ==
    /\ timer = "scheduled"
    /\ timer' = "fired"
    /\ \E r \in 1..Len(RandomPool) : result' = SSM_timeout(request, now, RandomPool[r])
    /\ UNCHANGED <<inputs, op, chatSystem, learningSystem, localStorage, training, inflight>>

\* azure-deploy.js
ADScanDoc ==
    \E response \in AD_scanDoc(request.file) : Apply("AD_ScanDoc", response)

NextHttp == FAScanDoc \/ SSMScanDoc \/ SSMTimeout \/ ADScanDoc

SpecHttp == InitHttp /\ [][NextHttp]_vars

\* ---- requests whose analysis may raise an exception ----
ErrorQuestions == {Undefined, QAQuestionPool[1], QAQuestionPool[6]}

ErrorFiles == {Null} \cup {[originalname |-> FilenamePool[i]] : i \in {1, 3, 4}}

InitError ==
    /\ NoAnalysis
    /\ docType = APS
    /\ now \in {n \in Nows : n <= ParseDate(Str(NowPool[2])).v + TicksPerDay}
    /\ question \in ErrorQuestions
    /\ documentData = Null
    /\ localStorage = <<>>
    /\ chatSystem = EC_constructor
    /\ learningSystem = SL_constructor(<<>>, 0)
    /\ request \in {r \in Requests : r.context = "" /\ r.file \in ErrorFiles}
    /\ upstream \in [documentIntelligence : DocumentIntelligences, openai : OpenAIs,
                      cosmos : {NoCosmos}, search : {NoSearch}]
    /\ timer = "none"
    /\ NoTraining
    /\ NoRequests
    /\ op = "none"
    /\ result = NoResult

\* simple-server.js (Azure services)
SSAScanDoc ==
    Apply("SSA_ScanDoc", SSA_scanDoc(request.file, upstream, now))

\* function-app.js, POST /api/qa with the body {question, documentType, extractedData}
FAQaRequest ==
    \E response \in FA_qaRequest(question, docType, documentData, now) :
        Apply("FA_qaRequest", response)

NextError == SSAScanDoc \/ FAScanDoc \/ FAQaRequest

SpecError == InitError /\ [][NextError]_vars

\* ---- requests that need a service behind the server ----
InitUpstream ==
    /\ text = <<>>
    /\ filename \in {FilenamePool[i] : i \in {1, 3, 4, 11}}
    /\ fields = NoFields
    /\ docType = ""
    /\ now = 0
    /\ NoChat
    /\ request \in Lookups
    /\ upstream \in [documentIntelligence : {NoServices.documentIntelligence},
                      openai : OpenAIs, cosmos : Cosmoses, search : Searches]
    /\ timer = "none"
    /\ NoTraining
    /\ NoRequests
    /\ op = "none"
    /\ result = NoResult

\* azure-deploy.js, GET /api/rules?jurisdiction=...&documentType=...
ADRules == Apply("AD_rules", AD_rules(request, upstream.cosmos))

\* azure-deploy.js, POST /api/search/brief
ADSearchBrief == Apply("AD_searchBrief", AD_searchBrief(request, upstream.search))

\* simple-server.js, DocumentAnalyzer.identifyDocumentType
SSIdentifyDocumentType ==
    Apply("SS_identifyDocumentType", SS_identifyDocumentType(Str(filename), upstream.openai))

NextUpstream == ADRules \/ ADSearchBrief \/ SSIdentifyDocumentType

SpecUpstream == InitUpstream /\ [][NextUpstream]_vars

\* ---- the weighted completeness check of simple-server.js ----
\* lines with the fields of the other profiles
LedgerLinePool ==
    <<"Statement Date: 2026-01-31",
      "Property Address: 123 Main Street, Toronto, ON",
      "Tax Year: 2025",
      "Tenant: John Doe",
      "Landlord: Jane Smith",
      "Monthly Rent: $2,000",
      "Lease start 2026-03-01, lease end 2027-02-28",
      "Form N4">>

WeightedTexts == Texts \cup TextsOf(LedgerLinePool, MaxLines)

\* the profiles of simple-server.js and a type that has no profile
WeightedTypes == DOMAIN SS_documentTypes \cup {"Legal Document"}

InitWeighted ==
    /\ text \in WeightedTexts
    /\ filename = ""
    /\ docType \in WeightedTypes
    /\ now = 0
    /\ fields = NoFields
    /\ NoChat
    /\ NoHttp
    /\ NoTraining
    /\ NoRequests
    /\ op = "none"
    /\ result = NoResult

SSCheckFieldCompleteness ==
    Apply("SS_checkFieldCompleteness", SS_checkFieldCompleteness(TextChars(text), docType))

NextWeighted == SSCheckFieldCompleteness \/ FACheckFieldCompleteness

SpecWeighted == InitWeighted /\ [][NextWeighted]_vars

\* ---- two results of one checker ----
\* the checkers that give a score and a status
BucketCheckers ==
    {"FA_checkFieldCompleteness", "SS_checkFieldCompleteness", "AI_analyzeFieldCompleteness",
     "FA_checkDocumentValidity", "SS_checkDocumentValidity", "AI_analyzeValidity"}

\* what a checker returns for a text
Checked(checker, chars, documentType, today) ==
    CASE checker = "FA_checkFieldCompleteness" -> FA_checkFieldCompleteness(chars, documentType)
      [] checker = "SS_checkFieldCompleteness" -> SS_checkFieldCompleteness(chars, documentType)
      [] checker = "AI_analyzeFieldCompleteness" ->
            AI_analyzeFieldCompleteness(chars, documentType)
      [] checker = "FA_checkDocumentValidity" -> FA_checkDocumentValidity(chars, documentType)
      [] checker = "SS_checkDocumentValidity" ->
            SS_checkDocumentValidity(chars, documentType, today)
      [] checker = "AI_analyzeValidity" -> AI_analyzeValidity(chars, documentType, today)

\* the first lines of LinePool: each line adds fields
Prefixes(pool) == {SubSeq(pool, 1, n) : n \in 0..Len(pool)}

\* a text of the validity pool has at most so many lines here
MaxBucketLines == 2

EarlierTexts == TextsOf(ValidityLinePool, MaxBucketLines) \cup Prefixes(LinePool)
LaterTexts == TextsOf(ValidityLinePool, MaxBucketLines - 1) \cup Prefixes(LinePool)

InitBuckets ==
    /\ text \in EarlierTexts
    /\ filename = ""
    /\ docType \in DocTypes
    /\ now \in {ParseDate(Str(NowPool[i])).v : i \in {2, 4}}
    /\ fields = NoFields
    /\ NoChat
    /\ NoHttp
    /\ NoTraining
    /\ NoRequests
    /\ op = "none"
    /\ result = NoResult

\* a checker is applied to the text, its score and status are kept, and another
\* text is handed in
CheckEarlier ==
    /\ op = "none"
    /\ documentData = Null
    /\ \E checker \in BucketCheckers :
           \E out \in {Checked(checker, TextChars(text), docType, now)} :
               documentData' = [checker |-> checker, score |-> out.score,
                                status |-> out.status]
    /\ text' \in LaterTexts
    /\ docType' \in DocTypes
    /\ UNCHANGED <<filename, now, fields, question, request, upstream, localStorage,
                   chatSystem, learningSystem, timer, training, inflight, op, result>>

\* the same checker is applied to the other text
CheckLater ==
    /\ op = "none"
    /\ documentData # Null
    /\ Apply(documentData.checker,
             Checked(documentData.checker, TextChars(text), docType, now))

NextBuckets == CheckEarlier \/ CheckLater

SpecBuckets == InitBuckets /\ [][NextBuckets]_vars

\* ---- requests that the server works on at the same time ----
\* how many requests the server receives
MaxRequests == 2

ConcurrentFiles == {Null} \cup {[originalname |-> FilenamePool[i]] : i \in {3, 4}}

\* the services answer each request on its own
ConcurrentServices ==
    {NoServices,
     [NoServices EXCEPT
         !.documentIntelligence = [configured |-> TRUE, post |-> "ok", doneAt |-> 30,
                                   final |-> "succeeded", words |-> WordsPool[3]],
         !.openai = [configured |-> TRUE, reply |-> ReplyPool[5]]],
     [NoServices EXCEPT
         !.documentIntelligence = [configured |-> TRUE, post |-> "ok", doneAt |-> 1,
                                   final |-> "failed", words |-> <<>>]]}

\* a request: the route it is sent to, what it carries and what the services
\* will answer for it
Arrival(kind, file, context, body, services) ==
    [kind |-> kind, file |-> file, context |-> context, body |-> body,
     services |-> services]

\* the body of a question: one without the question is among them
QaBodies ==
    {[documentType |-> APS]}
    \cup {[question |-> QAQuestionPool[q], documentType |-> APS] : q \in {1, 6}}

\* req.body.question
QuestionOf(body) == IF HasProp(body, "question") THEN body.question ELSE Undefined

Arrivals ==
    {Arrival("FA_ScanDoc", f, "", EmptyObject, NoServices) : f \in ConcurrentFiles}
    \cup {Arrival("FA_qa", Null, "", b, NoServices) : b \in QaBodies}
    \cup {Arrival("SSM_ScanDoc", f, ContextPool[c], EmptyObject, NoServices) :
              f \in ConcurrentFiles, c \in {1, 3}}
    \cup {Arrival("SSA_ScanDoc", f, "", EmptyObject, sv) :
              f \in ConcurrentFiles, sv \in ConcurrentServices}

\* the call of a handler: req, where the handler stands, its local constants and
\* what it has answered
Handler(req, stage) ==
    [req |-> req, stage |-> stage,
     locals |-> [documentText |-> Undefined, classification |-> Undefined,
                 fieldCompleteness |-> Undefined],
     response |-> NoResponse]

\* res.status(...).json(...) as the last statement the handler runs
Answered(handler, response) == [handler EXCEPT !.stage = "done", !.response = response]

\* a scope that all the calls share: the last call overwrites it
Latest(handlers, id) == handlers[Len(handlers)]

\* a callback or the continuation of an await runs in the scope of its own call
Own(handlers, id) == handlers[id]

\* function-app.js POST /api/ScanDoc: the handler awaits nothing
FA_scanDocHandler(req, today) == Answered(Handler(req, "called"), FA_scanDoc(req.file, today))

\* function-app.js POST /api/qa: the handler awaits nothing
FA_qaHandlers(req, today) ==
    {Answered(Handler(req, "called"), response) :
        response \in FA_qaRequest(QuestionOf(req.body), req.body.documentType, Null, today)}

\* simple-server.js (mock responses) POST /api/ScanDoc, up to setTimeout
SSM_scanDocHandler(req) == Handler(req, "timer")

\* the callback of its timer
SSM_timerFired(handler, today, random) ==
    Answered(handler, SSM_timeout(handler.req, today, random))

\* simple-server.js (Azure services) POST /api/ScanDoc, up to its first await
SSA_scanDocHandler(req) ==
    IF req.file = Null
    THEN Answered(Handler(req, "called"), Response(400, [error |-> "No file uploaded"]))
    ELSE Handler(req, "extract")

\* after await analyzeDocumentWithAI(...): the text, or the catch block
SSA_extracted(handler, analysis) ==
    IF analysis.threw
    THEN Answered(handler, Response(500, [error |-> "Document analysis failed",
                                          details |-> analysis.message]))
    ELSE [handler EXCEPT !.stage = "classify",
                         !.locals.documentText =
                             SSA_extractTextFromAnalysis(analysis.value.words)]

\* after await analyzer.identifyDocumentType(...)
SSA_classified(handler) ==
    [handler EXCEPT !.stage = "complete",
                    !.locals.classification =
                        SS_identifyDocumentType(Str(handler.req.file.originalname),
                                                handler.req.services.openai)]

\* after await analyzer.checkFieldCompleteness(...)
SSA_completed(handler) ==
    [handler EXCEPT !.stage = "validate",
                    !.locals.fieldCompleteness =
                        SS_checkFieldCompleteness(handler.locals.documentText,
                                                  handler.locals.classification.documentType)]

\* after await analyzer.checkDocumentValidity(...): the result is sent
SSA_validated(handler, today) ==
    Answered(handler,
             Response(200,
                      SSA_scanResult(
                          handler.locals.classification,
                          handler.locals.fieldCompleteness,
                          SS_checkDocumentValidity(handler.locals.documentText,
                                                   handler.locals.classification.documentType,
                                                   today),
                          SSA_daysUntilExpiry(
                              SS_docRules(handler.locals.classification.documentType).maxAge,
                              SS_ageInDays(SS_issueDate(handler.locals.documentText), today)),
                          today)))

InitConcurrent ==
    /\ NoAnalysis
    /\ docType = APS
    /\ now \in {ParseDate(Str(NowPool[i])).v : i \in {2, 4}}
    /\ question = QAQuestionPool[1]
    /\ documentData = Null
    /\ localStorage = <<>>
    /\ chatSystem = EC_constructor
    /\ learningSystem = SL_constructor(<<>>, 0)
    /\ NoHttp
    /\ NoTraining
    /\ NoRequests
    /\ op = "none"
    /\ result = NoResult

\* the server calls the handler of the route for a request
Called(name, handler) ==
    /\ Len(inflight) < MaxRequests
    /\ inflight' = Append(inflight, handler)
    /\ op' = name
    /\ result' = handler.response
    /\ UNCHANGED <<inputs, chatSystem, learningSystem, localStorage, timer, training>>

\* the handler of request id goes on from where it stood
Continued(name, id, handler) ==
    /\ inflight' = [inflight EXCEPT ![id] = handler]
    /\ op' = name
    /\ result' = handler.response
    /\ UNCHANGED <<inputs, chatSystem, learningSystem, localStorage, timer, training>>

\* the requests of a route, and the calls that stand at a stage
ArrivalsTo(kind) == {req \in Arrivals : req.kind = kind}
StandingAt(kind, stage) ==
    {id \in 1..Len(inflight) : inflight[id].req.kind = kind /\ inflight[id].stage = stage}

CFAScanDoc ==
    \E req \in ArrivalsTo("FA_ScanDoc") : Called("FA_ScanDoc", FA_scanDocHandler(req, now))

CFAQa ==
    \E req \in ArrivalsTo("FA_qa") :
        \E handler \in FA_qaHandlers(req, now) : Called("FA_qa", handler)

CSSMScanDoc ==
    \E req \in ArrivalsTo("SSM_ScanDoc") : Called("SSM_ScanDoc", SSM_scanDocHandler(req))

CSSMTimeout ==
    \E id \in StandingAt("SSM_ScanDoc", "timer") :
        \E r \in 1..Len(RandomPool) :
            Continued("SSM_timeout", id, SSM_timerFired(Own(inflight, id), now, RandomPool[r]))

CSSAScanDoc ==
    \E req \in ArrivalsTo("SSA_ScanDoc") : Called("SSA_ScanDoc", SSA_scanDocHandler(req))

CSSAExtracted ==
    \E id \in StandingAt("SSA_ScanDoc", "extract") :
        \E handler \in {Own(inflight, id)} :
            Continued("SSA_extracted", id,
                      SSA_extracted(handler,
                                    SSA_analyzeDocumentWithAI(
                                        handler.req.services.documentIntelligence)))

CSSAClassified ==
    \E id \in StandingAt("SSA_ScanDoc", "classify") :
        Continued("SSA_classified", id, SSA_classified(Own(inflight, id)))

CSSACompleted ==
    \E id \in StandingAt("SSA_ScanDoc", "complete") :
        Continued("SSA_completed", id, SSA_completed(Own(inflight, id)))

CSSAValidated ==
    \E id \in StandingAt("SSA_ScanDoc", "validate") :
        Continued("SSA_validated", id, SSA_validated(Own(inflight, id), now))

NextConcurrent ==
    \/ CFAScanDoc \/ CFAQa \/ CSSMScanDoc \/ CSSMTimeout
    \/ CSSAScanDoc \/ CSSAExtracted \/ CSSAClassified \/ CSSACompleted \/ CSSAValidated

SpecConcurrent == InitConcurrent /\ [][NextConcurrent]_vars

\* ---- requests that the server answers while its clock goes on ----
\* how often the clock of the server goes on by a tick
MaxTicks == 1

ClockStart == ParseDate(Str(NowPool[4])).v

InitClock ==
    /\ InitConcurrent
    /\ now = ClockStart

\* the clock of the server goes on between two steps of the handlers
Tick ==
    /\ now < ClockStart + MaxTicks
    /\ now' = now + 1
    /\ op' = "tick"
    /\ result' = NoResponse
    /\ UNCHANGED <<text, filename, docType, fields, question, documentData, request,
                   upstream, systems>>

NextClock ==
    \/ CFAScanDoc \/ CSSMScanDoc \/ CSSMTimeout \/ Tick
    \/ CSSAScanDoc \/ CSSAExtracted \/ CSSAClassified \/ CSSACompleted \/ CSSAValidated

SpecClock == InitClock /\ [][NextClock]_vars

\* ---- calls of processQuestion that overlap ----
\* how many questions are asked
MaxQuestions == 3

OverlapQuestions == {QAQuestionPool[i] : i \in {1, 3, 11}}

OverlapDatas ==
    {Null} \cup {d \in DocumentDatas(APS) :
                    /\ d # Null
                    /\ d.purchasePrice = PricePool[1]
                    /\ d.depositAmount = DepositPool[1]
                    /\ d.closingDate = DetailsPool[1].closingDate
                    /\ d.fieldCompleteness = (CHOOSE a \in Analyses(APS) : TRUE).fieldCompleteness}

InitOverlap ==
    /\ NoAnalysis
    /\ docType = APS
    /\ now = ClockStart
    /\ question \in OverlapQuestions
    /\ documentData \in OverlapDatas
    /\ localStorage = <<>>
    /\ chatSystem = EC_constructor
    /\ learningSystem = SL_constructor(<<>>, 0)
    /\ NoHttp
    /\ NoTraining
    /\ NoRequests
    /\ op = "none"
    /\ result = NoResult

\* the calls that stand at their await, in the order in which they got there
Awaiting == {id \in 1..Len(inflight) : inflight[id].stage = "await"}

\* processQuestion(question, documentData) is called and runs to its await
ECAsk ==
    /\ Len(inflight) < MaxQuestions
    /\ \E q \in OverlapQuestions :
           \E out \in {EC_asked(chatSystem, QuestionChars(q), documentData, now)} :
               /\ question' = q
               /\ chatSystem' = out.system
               /\ inflight' = Append(inflight, out.call)
    /\ op' = "EC_asked"
    /\ result' = NoResult
    /\ UNCHANGED <<text, filename, docType, now, fields, documentData, request, upstream,
                   learningSystem, localStorage, timer, training>>

\* the job queue runs the continuation of the call that awaited first
ECAnswer ==
    /\ Awaiting # {}
    /\ \E id \in {Min(Awaiting)} :
           /\ chatSystem' = EC_answered(chatSystem, inflight[id], now)
           /\ inflight' = [inflight EXCEPT ![id].stage = "done"]
           /\ result' = inflight[id].response
    /\ op' = "EC_answered"
    /\ UNCHANGED <<inputs, learningSystem, localStorage, timer, training>>

NextOverlap == ECAsk \/ ECAnswer

SpecOverlap == InitOverlap /\ [][NextOverlap]_vars

\* ---- feedback and chat interactions on one page ----
\* how many feedbacks are submitted and how many questions are answered
MaxFeedback == 2
MaxInteractions == 2

RatingPool == <<0, 2, 5>>
FeedbackTypePool == <<"no-feedback", "helpful", "inaccurate">>

InitFeedback ==
    /\ NoAnalysis
    /\ docType = APS
    /\ now = ClockStart
    /\ question \in {QAQuestionPool[i] : i \in {1, 11}}
    /\ documentData = Null
    /\ localStorage \in LocalStorages
    /\ chatSystem = EC_constructor
    /\ learningSystem = SL_constructor(localStorage, now)
    /\ NoHttp
    /\ NoTraining
    /\ NoRequests
    /\ op = "none"
    /\ result = NoResult

\* showFeedback(question, response) for the latest exchange of the chat
ShownExchange ==
    IF learningSystem.conversationHistory = <<>> THEN [question |-> Null, response |-> Null]
    ELSE [question |-> learningSystem.conversationHistory[
                           Len(learningSystem.conversationHistory)].question,
          response |-> learningSystem.conversationHistory[
                           Len(learningSystem.conversationHistory)].response]

\* a step of the page that leaves the servers and the other objects alone
OnPage(name, value) ==
    /\ op' = name
    /\ result' = value
    /\ UNCHANGED <<inputs, chatSystem, timer, aiAnalyzer, trainingSystem, dashboard,
                   inflight>>

\* the click on submitFeedback
FSSubmitFeedback ==
    /\ calls.feedback < MaxFeedback
    /\ \E r \in 1..Len(RatingPool), t \in 1..Len(FeedbackTypePool) :
           /\ ~(RatingPool[r] = 0 /\ FeedbackTypePool[t] = "no-feedback")
           /\ \E out \in {FS_submitFeedback(learningSystem, localStorage, ShownExchange,
                                              RatingPool[r], FeedbackTypePool[t], now)} :
                  /\ learningSystem' = out.system
                  /\ localStorage' = out.storage
    /\ calls' = [calls EXCEPT !.feedback = @ + 1]
    /\ OnPage("FS_submitFeedback", Undefined)

\* the click on submitFeedback with no star and no radio button set
FSSubmitNothing ==
    /\ \E out \in {FS_submitFeedback(learningSystem, localStorage, ShownExchange, 0,
                                       "no-feedback", now)} :
           /\ learningSystem' = out.system
           /\ localStorage' = out.storage
    /\ UNCHANGED calls
    /\ OnPage("FS_submitNothing", Undefined)

\* SelfLearningSystem.generateResponse for a question of the chat
FSChat ==
    /\ calls.chat < MaxInteractions
    /\ \E out \in {SL_generateResponse(learningSystem, QuestionChars(question), docType,
                                        documentData, now)} :
           /\ learningSystem' = out.system
           /\ localStorage' = SL_save(localStorage, out.system)
           /\ OnPage("SL_generateResponse", Returned(out.response))
    /\ calls' = [calls EXCEPT !.chat = @ + 1]

FSGetFeedbackStats ==
    /\ UNCHANGED <<learningSystem, localStorage, calls>>
    /\ OnPage("FS_getFeedbackStats", FS_getFeedbackStats(localStorage))

NextFeedback == FSSubmitFeedback \/ FSSubmitNothing \/ FSChat \/ FSGetFeedbackStats

SpecFeedback == InitFeedback /\ [][NextFeedback]_vars

\* ---- field analyses that are stored and updated ----
\* how many documents are analysed
MaxStored == 2

FieldLinePool ==
    <<"Buyer: John Smith", "Buyer: ________", "Purchase Price: $750,000",
      "Conditions: financing Signatures">>
StoredTexts ==
    {<<>>, <<FieldLinePool[1]>>, <<FieldLinePool[4]>>, SubSeq(FieldLinePool, 2, 3)}
FieldDocTypes == {APS, "General Legal Document"}

\* the field names of updateFieldStatus: two fields of the APS, a name that
\* no object has and a name that every object inherits
UpdateNamePool == <<"buyerName", "purchasePrice", "notAField", "constructor">>

StoredAnalyses == SL_load(localStorage, "documentAnalysis", <<>>)

\* the ids of the stored documents and one that is not stored
UpdateIds == {StoredAnalyses[i].id : i \in 1..Len(StoredAnalyses)} \cup {Str("doc_0_none")}

InitFields ==
    /\ NoAnalysis
    /\ docType = APS
    /\ now = ClockStart
    /\ NoChat
    /\ chatSystem = EC_constructor
    /\ learningSystem = SL_constructor(<<>>, 0)
    /\ NoHttp
    /\ NoTraining
    /\ NoRequests
    /\ op = "none"
    /\ result = NoResult

\* analyzeDocumentFields(documentText, documentType)
RDAnalyzeDocumentFields ==
    /\ Len(StoredAnalyses) < MaxStored
    /\ \E t \in StoredTexts, type \in FieldDocTypes, r \in 1..Len(RandomPool) :
           \E analysis \in {RD_fieldAnalysis(TextChars(t), type, now)} :
               /\ text' = t
               /\ docType' = type
               /\ localStorage'
                      = RD_storeFieldAnalysis(localStorage, analysis, now, RandomPool[r]).storage
               /\ result' = Returned(analysis)
    /\ op' = "RD_analyzeDocumentFields"
    /\ UNCHANGED <<filename, now, fields, question, documentData, request, upstream,
                   chatSystem, learningSystem, timer, training, inflight>>

\* updateFieldStatus(documentId, fieldName, isFilled)
RDUpdateFieldStatus ==
    /\ \E id \in UpdateIds, f \in 1..Len(UpdateNamePool), isFilled \in BOOLEAN :
           \E out \in {RD_updateFieldStatus(localStorage, id, UpdateNamePool[f], isFilled,
                                            now)} :
               /\ localStorage' = out.storage
               /\ result' = Returned(out.value)
    /\ op' = "RD_updateFieldStatus"
    /\ UNCHANGED <<inputs, chatSystem, learningSystem, timer, training, inflight>>

NextFields == RDAnalyzeDocumentFields \/ RDUpdateFieldStatus

SpecFields == InitFields /\ [][NextFields]_vars

\* ---- analyzeDocumentWithAI, poll by poll ----
\* the latest poll at which Document Intelligence may report its final status
MaxDoneAt == 32

PollingServices ==
    {[NoServices EXCEPT
         !.documentIntelligence = [configured |-> c, post |-> p, doneAt |-> at,
                                   final |-> f, words |-> WordsPool[3]]] :
        c \in BOOLEAN, p \in {"ok", "error"}, at \in 1..MaxDoneAt,
        f \in {"succeeded", "failed", "error"}}

\* a call of analyzeDocumentWithAI: where it stands, attempts, whether the
\* analyze request was accepted, the statuses its polls saw, and how it ended
SSA_call(stage) ==
    [stage |-> stage, attempts |-> 0, submitted |-> FALSE, seen |-> <<>>,
     outcome |-> NoResult]

SSA_ended(call, outcome) == [call EXCEPT !.stage = "ended", !.outcome = outcome]

\* the call up to its first await
SSA_entered(service) ==
    IF ~service.configured
    THEN SSA_ended(SSA_call("entered"), Returned([words |-> SSA_mockWords, polls |-> 0]))
    ELSE SSA_call("post")

\* axios.post settles
SSA_posted(call, service) ==
    IF service.post = "error" THEN SSA_ended(call, Threw("Request failed"))
    ELSE [call EXCEPT !.stage = "loop", !.submitted = TRUE]

\* the test of the while loop and, when it fails, the statement after the loop
SSA_tested(call) ==
    IF call.attempts < SSA_maxAttempts THEN [call EXCEPT !.stage = "timer"]
    ELSE SSA_ended(call, Threw("Document analysis timed out"))

\* a poll that keeps on at 'failed' as at any other status
PollsOn(call, status, words) ==
    LET seen == [call EXCEPT !.seen = Append(@, status)]
    IN  IF status = "succeeded"
        THEN SSA_ended(seen, Returned([words |-> words, polls |-> Len(seen.seen)]))
        ELSE IF status = "error" THEN SSA_ended(seen, Threw("Request failed"))
        ELSE [seen EXCEPT !.attempts = @ + 1, !.stage = "loop"]

\* axios.get settles with status in statusResponse.data.status, or rejects
\* ("error"): the rest of the body of the loop
SSA_polled(call, status, words) ==
    LET seen == [call EXCEPT !.seen = Append(@, status)]
    IN  IF status = "succeeded"
        THEN SSA_ended(seen, Returned([words |-> words, polls |-> Len(seen.seen)]))
        ELSE IF status = "failed" THEN SSA_ended(seen, Threw("Document analysis failed"))
        ELSE IF status = "error" THEN SSA_ended(seen, Threw("Request failed"))
        ELSE [seen EXCEPT !.attempts = @ + 1, !.stage = "loop"]

InitPolling ==
    /\ NoAnalysis
    /\ docType = APS
    /\ now = ClockStart
    /\ question = QAQuestionPool[1]
    /\ documentData = Null
    /\ localStorage = <<>>
    /\ chatSystem = EC_constructor
    /\ learningSystem = SL_constructor(<<>>, 0)
    /\ request = NoRequest
    /\ upstream \in PollingServices
    /\ timer = "none"
    /\ NoTraining
    /\ NoRequests
    /\ op = "none"
    /\ result = NoResult

\* the call goes on to its next await or to its end
Polling(name, call) ==
    /\ inflight' = <<call>>
    /\ op' = name
    /\ result' = call.outcome
    /\ UNCHANGED <<inputs, chatSystem, learningSystem, localStorage, timer, training>>

StandsAt(stage) == inflight # <<>> /\ inflight[1].stage = stage

SSAEnter ==
    /\ inflight = <<>>
    /\ Polling("SSA_entered", SSA_entered(upstream.documentIntelligence))

SSAPosted ==
    /\ StandsAt("post")
    /\ Polling("SSA_posted", SSA_posted(inflight[1], upstream.documentIntelligence))

SSATested ==
    /\ StandsAt("loop")
    /\ Polling("SSA_tested", SSA_tested(inflight[1]))

\* the timer of 2000 ms fires and the status is asked for
SSATimer ==
    /\ StandsAt("timer")
    /\ Polling("SSA_timer", [inflight[1] EXCEPT !.stage = "get"])

SSAPolled ==
    /\ StandsAt("get")
    /\ Polling("SSA_polled",
               SSA_polled(inflight[1],
                          SSA_status(upstream.documentIntelligence, inflight[1].attempts),
                          upstream.documentIntelligence.words))

NextPolling == SSAEnter \/ SSAPosted \/ SSATested \/ SSATimer \/ SSAPolled

\* timers fire and requests settle
SpecPolling == InitPolling /\ [][NextPolling]_vars /\ WF_vars(NextPolling)

\* ---- analysing, training and chatting on the page ----
\* the day of the page
Today == ParseDate(Str(NowPool[3])).v

\* the files that are analysed: those of the page and the training documents
MockFiles ==
    {UploadPool[i] : i \in 1..Len(UploadPool)}
        \cup {TR_trainingData[i].filename : i \in 1..Len(TR_trainingData)}

\* what an analyzer with the patterns of the constructor finds in each file
AI_newFindings ==
    [name \in MockFiles |->
        AI_findings(AI_documentPatterns, AI_extractTextFromFile(name), Str(name), Today)]

\* analyzeDocument({name}, name): the findings are read off AI_newFindings when
\* the patterns of the analyzer are those of the constructor, and are computed
\* from its patterns otherwise
AI_analyzeFile(analyzer, name, today) ==
    IF analyzer.documentPatterns = AI_documentPatterns /\ today = Today /\ name \in MockFiles
    THEN AI_analyzed(analyzer, name, AI_newFindings[name], today)
    ELSE AI_analyzeDocument(analyzer, [name |-> name], name, today)

InitTraining ==
    /\ NoAnalysis
    /\ docType = ""
    /\ now = Today
    /\ question = QAQuestionPool[1]
    /\ documentData = Null
    /\ localStorage = <<>>
    /\ chatSystem = EC_constructor
    /\ learningSystem = SL_constructor(<<>>, 0)
    /\ NoHttp
    /\ aiAnalyzer = AI_constructor
    /\ trainingSystem \in {TR_constructor, TR_initializeTrainingData(TR_constructor)}
    /\ calls = NoCalls
    /\ dashboard = TD_constructor
    /\ NoRequests
    /\ op = "none"
    /\ result = NoResult

\* The page calls for an operation from an event handler.  A run of startTraining
\* only awaits promises that are already settled, so it goes on in the microtask
\* queue until it has ended, and no event handler runs before that.
PageIsIdle == trainingSystem.run \in {"idle", "rejected"}

\* the operation returns value; the analyzer and the training system are set by
\* the action
Did(name, value) ==
    /\ op' = name
    /\ result' = value
    /\ UNCHANGED <<inputs, learningSystem, localStorage, timer, inflight>>

\* AIDocumentAnalyzer.analyzeDocument(file, file.name) for a file of the page
AIAnalyzeDocument ==
    /\ PageIsIdle
    /\ calls.analyze < MaxUploads
    /\ \E u \in 1..Len(UploadPool) :
           \E out \in {AI_analyzeFile(aiAnalyzer, UploadPool[u], now)} :
               /\ Did("AI_analyzeDocument", out.analysis)
               /\ aiAnalyzer' = out.analyzer
    /\ calls' = [calls EXCEPT !.analyze = @ + 1]
    /\ UNCHANGED <<trainingSystem, chatSystem, dashboard>>

\* EnhancedChatSystem.processQuestion on the page
TRChat ==
    /\ PageIsIdle
    /\ calls.chat < MaxChats
    /\ \E out \in {EC_processQuestion(chatSystem, QuestionChars(question), documentData, now)} :
           /\ Did("EC_processQuestion", out.response)
           /\ chatSystem' = out.system
    /\ calls' = [calls EXCEPT !.chat = @ + 1]
    /\ UNCHANGED <<aiAnalyzer, trainingSystem, dashboard>>

\* AITrainingSystem.startTraining()
TRStartTraining ==
    /\ PageIsIdle
    /\ calls.train < MaxTrainings
    /\ Did("TR_startTraining", Undefined)
    /\ trainingSystem' = TR_startTraining(trainingSystem)
    /\ calls' = [calls EXCEPT !.train = @ + 1]
    /\ UNCHANGED <<aiAnalyzer, chatSystem, dashboard>>

\* runTrainingPass: the next document of the pass is analysed and compared
TRAnalyzeNext ==
    /\ trainingSystem.run = "pass"
    /\ trainingSystem.next <= Len(trainingSystem.trainingData)
    /\ \E doc \in {trainingSystem.trainingData[trainingSystem.next]} :
           \E out \in {AI_analyzeFile(aiAnalyzer, doc.filename, now)} :
               /\ Did("TR_analyzeNext", out.analysis)
               /\ aiAnalyzer' = out.analyzer
               /\ trainingSystem' =
                      TR_processed(trainingSystem,
                                   TR_compareWithExpected(out.analysis, doc, trainingSystem.pass))
    /\ UNCHANGED <<calls, chatSystem, dashboard>>

\* the pass is over: its results are pushed and, after pass 1, its errors are
\* analysed and the patterns refined
TREndPass ==
    /\ trainingSystem.run = "pass"
    /\ trainingSystem.next > Len(trainingSystem.trainingData)
    /\ \E passed \in {TR_passed(trainingSystem)} :
           IF trainingSystem.pass > 1
           THEN /\ ~TR_refineThrows(passed)
                /\ aiAnalyzer' = TR_refineClassificationPatterns(
                                     aiAnalyzer, passed.trainingData, TR_refinedErrors(passed), 1)
                /\ trainingSystem' = TR_nextPass(passed, Len(TR_refinedErrors(passed)))
           ELSE /\ aiAnalyzer' = aiAnalyzer
                /\ trainingSystem' = TR_nextPass(passed, 0)
    /\ Did("TR_endPass", Undefined)
    /\ UNCHANGED <<calls, chatSystem, dashboard>>

\* finalizeTraining, isTraining = false and printTrainingSummary
TRFinalize ==
    /\ trainingSystem.run = "finalize"
    /\ ~TR_finalizeThrows(trainingSystem)
    /\ trainingSystem' = TR_finished(trainingSystem)
    /\ Did("TR_finalize", Undefined)
    /\ UNCHANGED <<calls, aiAnalyzer, chatSystem, dashboard>>

\* the steps of a run of startTraining
TRStep == TRAnalyzeNext \/ TREndPass \/ TRFinalize

NextTraining == AIAnalyzeDocument \/ TRChat \/ TRStartTraining \/ TRStep

SpecTraining == InitTraining /\ [][NextTraining]_vars

\* a run of startTraining that can take a step takes it: its awaits are on
\* promises that are already settled, so its continuations are always scheduled
SpecTrainingRuns == SpecTraining /\ WF_vars(TRStep)

\* ---- analyzeDocument over the text of the document ----
\* extractTextFromFile stands for a text extraction service ("in a real
\* implementation, this would use Azure Document Intelligence"): the text it
\* gives is drawn from the validity pool
LabelTexts == TextsOf(ValidityLinePool, MaxBucketLines)

InitLabels ==
    /\ text \in LabelTexts
    /\ filename \in {UploadPool[u] : u \in 1..Len(UploadPool)}
    /\ fields = NoFields
    /\ docType = ""
    /\ now \in {Today, ParseDate(Str(NowPool[1])).v}
    /\ NoChat
    /\ NoHttp
    /\ NoTraining
    /\ NoRequests
    /\ op = "none"
    /\ result = NoResult

\* analyzeDocument from the extracted text on: classification, completeness,
\* validity, learning and the returned object
AIAnalyzeText ==
    /\ PageIsIdle
    /\ calls.analyze < MaxUploads
    /\ \E out \in {AI_analyzed(aiAnalyzer, filename,
                                AI_findings(aiAnalyzer.documentPatterns, TextChars(text),
                                            Str(filename), now),
                                now)} :
           /\ Did("AI_analyzeText", out.analysis)
           /\ aiAnalyzer' = out.analyzer
    /\ calls' = [calls EXCEPT !.analyze = @ + 1]
    /\ UNCHANGED <<trainingSystem, chatSystem, dashboard>>

NextLabels == AIAnalyzeText \/ AIAnalyzeDocument

SpecLabels == InitLabels /\ [][NextLabels]_vars

\* ---- a training run with an analyzer whose analyzeDocument may throw ----
\* how often analyzeDocument throws
MaxFailures == 2

\* the messages of the exceptions
FailurePool == <<"AI analysis failed: service unavailable">>

\* runTrainingPass: analyzeDocument throws for the next document of the pass
TRAnalyzeFails ==
    /\ trainingSystem.run = "pass"
    /\ trainingSystem.next <= Len(trainingSystem.trainingData)
    /\ calls.failed < MaxFailures
    /\ \E m \in 1..Len(FailurePool) :
           /\ trainingSystem' =
                  TR_failed(trainingSystem, trainingSystem.trainingData[trainingSystem.next],
                            FailurePool[m])
           /\ Did("TR_analyzeFails", Threw(FailurePool[m]))
    /\ calls' = [calls EXCEPT !.failed = @ + 1]
    /\ UNCHANGED <<aiAnalyzer, chatSystem, dashboard>>

\* the pass is over and its results are pushed; analyzeErrorsAndRefine throws
TREndPassThrows ==
    /\ trainingSystem.run = "pass"
    /\ trainingSystem.next > Len(trainingSystem.trainingData)
    /\ trainingSystem.pass > 1
    /\ \E passed \in {TR_passed(trainingSystem)} :
           /\ TR_refineThrows(passed)
           /\ trainingSystem' = TR_rejected(passed)
    /\ Did("TR_endPassThrows", Undefined)
    /\ UNCHANGED <<calls, aiAnalyzer, chatSystem, dashboard>>

\* finalizeTraining throws
TRFinalizeThrows ==
    /\ trainingSystem.run = "finalize"
    /\ TR_finalizeThrows(trainingSystem)
    /\ trainingSystem' = TR_rejected(trainingSystem)
    /\ Did("TR_finalizeThrows", Undefined)
    /\ UNCHANGED <<calls, aiAnalyzer, chatSystem, dashboard>>

\* the steps of a run in which an exception is thrown
TRFailStep == TRAnalyzeFails \/ TREndPassThrows \/ TRFinalizeThrows

NextFailing == NextTraining \/ TRFailStep

\* the run goes on after each await, whether the awaited promise is fulfilled or
\* rejected
SpecTrainingFailures ==
    InitTraining /\ [][NextFailing]_vars /\ WF_vars(TRStep \/ TRFailStep)

\* ---- a training run during which the page handles events ----
\* An analyzer that awaits a service settles its promise in a later task, so the
\* page handles clicks and calls between the steps of a run.
\* how many calls of startTraining find a run going on
MaxIgnored == 2

\* TrainingDashboard.startTraining: the click handler of Start Training
TD_startTraining(buttons) == [buttons EXCEPT !.startDisabled = TRUE, !.stopDisabled = FALSE]

\* TrainingDashboard.stopTraining: the click handler of Stop Training
TD_stopTraining(buttons) == [buttons EXCEPT !.startDisabled = FALSE, !.stopDisabled = TRUE]

\* what a call of startTraining counts as
Counted(trainer) ==
    IF trainer.isTraining
    THEN [calls EXCEPT !.ignored = @ + 1]
    ELSE [calls EXCEPT !.train = @ + 1]

MayCall(trainer) ==
    IF trainer.isTraining THEN calls.ignored < MaxIgnored ELSE calls.train < MaxTrainings

\* a click on Start Training, which is not disabled
TDStartTraining ==
    /\ ~dashboard.startDisabled
    /\ MayCall(trainingSystem)
    /\ dashboard' = TD_startTraining(dashboard)
    /\ trainingSystem' = TR_startTraining(trainingSystem)
    /\ calls' = Counted(trainingSystem)
    /\ Did("TD_startTraining", Undefined)
    /\ UNCHANGED <<aiAnalyzer, chatSystem>>

\* a click on Stop Training, which is not disabled
TDStopTraining ==
    /\ ~dashboard.stopDisabled
    /\ dashboard' = TD_stopTraining(dashboard)
    /\ Did("TD_stopTraining", Undefined)
    /\ UNCHANGED <<aiAnalyzer, trainingSystem, calls, chatSystem>>

\* AITrainingSystem.startTraining() called while a run is going on
TRStartDuringRun ==
    /\ trainingSystem.run \notin {"idle", "rejected"}
    /\ MayCall(trainingSystem)
    /\ trainingSystem' = TR_startTraining(trainingSystem)
    /\ calls' = Counted(trainingSystem)
    /\ Did("TR_startTraining", Undefined)
    /\ UNCHANGED <<aiAnalyzer, chatSystem, dashboard>>

NextClicks == NextTraining \/ TDStartTraining \/ TDStopTraining \/ TRStartDuringRun

SpecTrainingClicks == InitTraining /\ [][NextClicks]_vars

(***************************************************************************)
(* Exceptions while a request is analysed                                  *)
(***************************************************************************)
\* the analysis of the request of the state raised an exception
SSA_threw == request.file # Null /\ SSA_analyzeDocumentWithAI(upstream.documentIntelligence).threw

\* C11: a POST /api/ScanDoc or POST /api/qa request whose analysis raised an
\* exception is answered, with status 500 and an error message string
C11_ExceptionIs500 ==
    /\ (op = "SSA_ScanDoc" /\ SSA_threw) =>
           /\ result.responded
           /\ result.status = 500
           /\ result.body.error = "Document analysis failed"
    /\ (op = "FA_qaRequest" /\ question = Undefined) =>
           result.responded /\ result.status = 500

\* the part of C11 that holds: the handler of simple-server.js answers 500 with a
\* message for a failed, a refused and a timed-out analysis
C11_ScanDocIs500 ==
    (op = "SSA_ScanDoc" /\ SSA_threw) =>
        /\ result.responded
        /\ result.status = 500
        /\ result.body.error = "Document analysis failed"
        /\ result.body.details \in {"Document analysis failed", "Document analysis timed out",
                                    "Request failed"}

C11_TimedOut ==
    /\ op = "SSA_ScanDoc"
    /\ result.responded /\ result.status = 500
    /\ result.body.details = "Document analysis timed out"

(***************************************************************************)
(* Classification without indicators                                       *)
(***************************************************************************)
ClassifyOps == {"FA_identifyDocumentType", "ML_classify", "AI_classifyDocument"}

\* the file name holds none of the substrings identifyDocumentType looks for
FA_NoIndicator ==
    \A w \in {Str("purchase"), Str("sale"), Str("aps"), Str("lease"), Str("rental"),
              Str("n1"), Str("n4"), Str("ltb")} :
        ~includes(toLowerCase(Str(filename)), w)

\* the file name holds no keyword or pattern of a model, nor a substring that
\* analyzeFileContent looks for
ML_NoIndicator ==
    /\ \A t \in DOMAIN ML_models :
          /\ CountIncluded(toLowerCase(Str(filename)), ML_models[t].keywords) = 0
          /\ CountIncluded(toLowerCase(Str(filename)), ML_models[t].patterns) = 0
    /\ ML_analyzeFileContent(Str(filename)).type = "Unknown Document"

\* no visual indicator and no text pattern of a document pattern is found in
\* the text, and no indicator in the file name
AI_NoIndicator ==
    \A j \in 1..Len(AI_documentPatterns) :
        AI_patternConfidence(TextChars(text), Str(filename), AI_documentPatterns[j]).num = 0

NoIndicator ==
    \/ op = "FA_identifyDocumentType" /\ FA_NoIndicator
    \/ op = "ML_classify" /\ ML_NoIndicator
    \/ op = "AI_classifyDocument" /\ AI_NoIndicator

ResultType == IF op = "ML_classify" THEN result.type ELSE result.documentType

\* the generic type of each classifier
FallbackType ==
    IF op = "FA_identifyDocumentType" THEN "Legal Document"
    ELSE IF op = "ML_classify" THEN "General Legal Document"
    ELSE "Unknown Document"

\* C1 as stated: an input without any indicator is classified as the generic
\* fallback type with a confidence of at most 0.4.
C1_FallbackAtMostFourTenths ==
    NoIndicator =>
        /\ ResultType = FallbackType
        /\ RatioLeq(result.confidence, Ratio(4, 10))

\* C1, amended: an input without any indicator is classified as the generic
\* fallback type of the classifier, with a confidence of at most 0.6 (0 in the
\* AI analyzer, 0.3 in the ML plugin, 0.6 in function-app.js).
C1_FallbackAtMostSixTenths ==
    NoIndicator =>
        /\ ResultType = FallbackType
        /\ RatioLeq(result.confidence, Ratio(6, 10))
        /\ op = "AI_classifyDocument" => result.confidence.num = 0
        /\ op = "ML_classify" => result.confidence = Ratio(300, 1000)

C1_Witness ==
    /\ op = "FA_identifyDocumentType"
    /\ NoIndicator
    /\ filename = "scan.pdf"
    /\ result.documentType = "Legal Document"
    /\ ~RatioLeq(result.confidence, Ratio(4, 10))

(***************************************************************************)
(* Completeness                                                            *)
(***************************************************************************)
CompleteOps == {"FA_checkFieldCompleteness", "AI_analyzeFieldCompleteness"}

\* the required fields of the profile the checker uses for docType, <<>> when
\* the AI analyzer has no profile for it
ProfileFields ==
    IF op = "FA_checkFieldCompleteness" THEN FA_docConfig(docType).requiredFields
    ELSE LET found == SelectSeq(AI_documentPatterns, LAMBDA q : q.documentType = docType)
         IN  IF found = <<>> THEN <<>> ELSE found[1].requiredFields

ScoreOf(presentRequired, requiredFields) ==
    IF op = "FA_checkFieldCompleteness"
    THEN FA_completenessScore(presentRequired, requiredFields)
    ELSE AI_completenessScore(presentRequired, requiredFields)

\* C2: the score of the unweighted checkers is the rounded percentage of the
\* required fields of the profile that are present (within half a point of
\* 100 * present / required, halves rounded up), and a larger set of present
\* fields never has a lower score.
C2_ScoreIsRoundedShare ==
    (op \in CompleteOps /\ ProfileFields # <<>>) =>
        LET p == Len(result.presentRequired)
            n == Len(ProfileFields)
        IN  /\ p + Len(result.missingRequired) = n
            /\ 2 * n * result.score <= 200 * p + n
            /\ 200 * p + n < 2 * n * (result.score + 1)
            /\ \A k \in 0..p :
                   /\ ScoreOf(SubSeq(result.presentRequired, 1, k), ProfileFields) <= result.score
                   /\ \A j \in 0..k :
                          ScoreOf(SubSeq(result.presentRequired, 1, j), ProfileFields)
                              <= ScoreOf(SubSeq(result.presentRequired, 1, k), ProfileFields)

\* four of six required fields: 66.67 is rounded to 67
C2_Witness ==
    /\ op = "FA_checkFieldCompleteness"
    /\ Len(result.presentRequired) = 4
    /\ Len(result.missingRequired) = 2
    /\ result.score = 67

\* the status the claim gives a score
C4_StatusOf(score) ==
    IF score >= 90 THEN "Complete"
    ELSE IF score >= 70 THEN "Mostly Complete"
    ELSE IF score >= 50 THEN "Partially Complete"
    ELSE "Incomplete"

\* C4 as stated: the completeness status is 'Complete' from 90, 'Mostly
\* Complete' from 70 to 89, 'Partially Complete' from 50 to 69 and
\* 'Incomplete' below 50, in every completeness checker.
C4_StatusByScore ==
    (op \in CompleteOps /\ ProfileFields # <<>>) =>
        result.status = C4_StatusOf(result.score)

\* C7 as stated (its completeness half): the empty text has score 0 against
\* every profile.
C7_EmptyTextScoresZero ==
    (op \in CompleteOps /\ text = <<>>) => result.score = 0

(***************************************************************************)
(* Validity                                                                *)
(***************************************************************************)
ValidityOps ==
    {"FA_checkDocumentValidity", "SS_checkDocumentValidity", "AI_analyzeValidity",
     "DB_validateDocument"}

\* C3: whatever penalties are summed, a validity score that a checker returns
\* lies in 0..100.  (validateDocument returns no score for a type without
\* rules; every other result has one.)
C3_ScoreInRange ==
    op \in ValidityOps =>
        /\ "score" \in DOMAIN result => result.score \in 0..100
        /\ "score" \notin DOMAIN result => (op = "DB_validateDocument" /\ docType \notin DOMAIN DB_rules)

\* the lowest score of simple-server.js: an expired APS without signatures and
\* with a low deposit, 100 - 30 - 20 - 20 - 15
C3_Witness ==
    /\ op = "SS_checkDocumentValidity"
    /\ docType = APS
    /\ Len(result.issues) = 4
    /\ result.score = 15

\* C5 as stated: 'Invalid' below 50, 'Potentially Invalid' from 50 to 79, and
\* from 80 'Valid with Issues' with at least one issue, 'Valid' with none.
C5_StatusByScoreAndIssues ==
    op \in {"FA_checkDocumentValidity", "SS_checkDocumentValidity", "AI_analyzeValidity"} =>
        result.status =
            IF result.score < 50 THEN "Invalid"
            ELSE IF result.score < 80 THEN "Potentially Invalid"
            ELSE IF Len(result.issues) > 0 THEN "Valid with Issues"
            ELSE "Valid"

(***************************************************************************)
(* The example of the purchase agreement                                   *)
(***************************************************************************)
C6_Text ==
    <<"Purchase Price: $750,000", "Buyer: John Doe", "Seller: Jane Smith",
      "Buyer Signature: [Signed]", "Seller Signature: [Signed]">>

\* C6 as stated: the example text has a completeness score of at least 80
\* against the APS profile, and a validity status 'Valid' or 'Valid with Issues'.
C6_ExampleAtLeastEighty ==
    (text = C6_Text /\ docType = APS) =>
        /\ op = "FA_checkFieldCompleteness" => result.score >= 80
        /\ op = "FA_checkDocumentValidity" => result.status \in {"Valid", "Valid with Issues"}

\* C6, amended: price, buyer and seller are the three of the six required
\* fields of the APS profile that are present, so the completeness score is 50
\* ('Partially Complete'); the validity status is 'Valid', with score 90 for
\* the missing date.
C6_ExampleIsHalfComplete ==
    (text = C6_Text /\ docType = APS) =>
        /\ op = "FA_checkFieldCompleteness" =>
              /\ result.presentRequired = <<"purchasePrice", "buyerName", "sellerName">>
              /\ result.score = 50
              /\ result.status = "Partially Complete"
        /\ op = "FA_checkDocumentValidity" =>
              /\ result.status = "Valid"
              /\ result.score = 90
              /\ result.issues = <<>>

C6_Witness ==
    /\ text = C6_Text
    /\ docType = APS
    /\ op = "FA_checkFieldCompleteness"
    /\ result.score = 50

(***************************************************************************)
(* The question classifier                                                 *)
(***************************************************************************)
\* a rule gives its intent to a question that contains every substring of `all'
\* and, when `any' is not empty, one of `any'
RuleApplies(rule, q) ==
    /\ \A w \in rule.all : Has(q, w)
    /\ rule.any = {} \/ \E w \in rule.any : Has(q, w)

\* the intent of the first rule of the list that applies; 'general' when none does
FirstRule(rules, q) ==
    IF \E i \in 1..Len(rules) : RuleApplies(rules[i], q)
    THEN rules[CHOOSE i \in 1..Len(rules) :
                   /\ RuleApplies(rules[i], q)
                   /\ \A j \in 1..(i - 1) : ~RuleApplies(rules[j], q)].intent
    ELSE "general"

C9_ListedRules ==
    <<[intent |-> "document_purpose", all |-> {"what", "document"}, any |-> {}],
      [intent |-> "completeness", all |-> {}, any |-> {"missing", "incomplete"}],
      [intent |-> "validity", all |-> {}, any |-> {"valid", "ready"}],
      [intent |-> "financial", all |-> {}, any |-> {"price", "cost", "amount"}],
      [intent |-> "temporal", all |-> {}, any |-> {"date", "when"}],
      [intent |-> "parties", all |-> {}, any |-> {"who", "party"}],
      [intent |-> "location", all |-> {}, any |-> {"where", "address"}]>>

C9_ActualRules ==
    <<[intent |-> "document_purpose", all |-> {"what"}, any |-> {"document", "for"}],
      [intent |-> "completeness", all |-> {}, any |-> {"missing", "incomplete", "complete"}],
      [intent |-> "validity", all |-> {}, any |-> {"valid", "ready"}],
      [intent |-> "financial", all |-> {}, any |-> {"price", "cost", "amount"}],
      [intent |-> "temporal", all |-> {}, any |-> {"date", "when", "time"}],
      [intent |-> "parties", all |-> {}, any |-> {"who", "party", "person"}],
      [intent |-> "location", all |-> {}, any |-> {"where", "address", "location"}],
      [intent |-> "process", all |-> {}, any |-> {"how", "process", "step"}]>>

\* C9 as stated: the intent of a question is that of the first listed rule that
\* applies to the lower-cased question: document-purpose iff 'what' and
\* 'document'; else completeness iff 'missing' or 'incomplete'; else validity
\* iff 'valid' or 'ready'; else financial iff 'price', 'cost' or 'amount'; else
\* temporal iff 'date' or 'when'; else parties iff 'who' or 'party'; else
\* location iff 'where' or 'address'; else general.
C9_IntentByListedRules ==
    op = "EC_classifyQuestion" =>
        result = FirstRule(C9_ListedRules, toLowerCase(QuestionChars(question)))

\* C9, amended: the question classifier maps every question to exactly one of
\* nine intents, that of the first rule that applies to the lower-cased
\* question: document-purpose iff 'what' and one of 'document', 'for'; else
\* completeness iff 'missing', 'incomplete' or 'complete'; else validity iff
\* 'valid' or 'ready'; else financial iff 'price', 'cost' or 'amount'; else
\* temporal iff 'date', 'when' or 'time'; else parties iff 'who', 'party' or
\* 'person'; else location iff 'where', 'address' or 'location'; else process
\* iff 'how', 'process' or 'step'; else general.
C9_IntentByActualRules ==
    op = "EC_classifyQuestion" =>
        result = FirstRule(C9_ActualRules, toLowerCase(QuestionChars(question)))

\* a question with 'how' and no substring of an earlier rule is a process question
C9_Witness ==
    /\ op = "EC_classifyQuestion"
    /\ question = <<"show", "hello">>
    /\ result = "process"

(***************************************************************************)
(* The purchase price in an answer                                         *)
(***************************************************************************)
QAOps == {"EC_processQuestion", "SL_generateResponse", "FA_qa"}

PriceQuestion == <<"What", "is", "the", "purchase", "price?">>

\* the Markdown of the answer that an operation returned
AnswerMarkdown ==
    CASE op = "EC_processQuestion" -> result.answerMarkdown
      [] op = "SL_generateResponse" -> result
      [] op = "FA_qa" -> result.body.answerMarkdown

\* the question is "What is the purchase price?" and the analysis result has a
\* purchasePrice
PriceAsked ==
    /\ question = PriceQuestion
    /\ documentData # Null
    /\ documentData.purchasePrice # ""

\* C8 as stated: the answer to "What is the purchase price?" against an analysis
\* result with a purchasePrice contains that purchasePrice, in every Q&A
\* formatter.
C8_AnswerHasPurchasePrice ==
    (op \in QAOps /\ PriceAsked) => includes(AnswerMarkdown, Str(documentData.purchasePrice))

(***************************************************************************)
(* A request without a file                                                *)
(***************************************************************************)
ScanDocOps == {"FA_ScanDoc", "SSM_ScanDoc", "AD_ScanDoc"}

\* the handler of the request, and the callback it left behind, have run
Handled == op \in ScanDocOps /\ timer # "scheduled"

\* C10 as stated: a POST /api/ScanDoc without a file is answered with status
\* 400 by every server; it is not answered with 500 and not left unanswered.
C10_NoFileIs400 ==
    (Handled /\ request.file = Null) => (result.responded /\ result.status = 400)


(***************************************************************************)
(* A document type without a profile                                       *)
(***************************************************************************)
\* the elements of a list
Elements(list) == {list[i] : i \in 1..Len(list)}

\* the type of the state has no profile in function-app.js
FA_unknownType == docType \notin DOMAIN FA_documentTypes

\* the fields that a completeness result reports on
C12_examinedFields == Elements(result.missingRequired) \cup Elements(result.presentRequired)

\* C12: for a type without a profile the checks of function-app.js evaluate the
\* text against a generic profile: the fields they report on are not the required
\* fields of a known type, and no issue asks for the signature of a signer of a
\* known type
C12_UnknownTypeGenericProfile ==
    FA_unknownType =>
        /\ op = "FA_checkFieldCompleteness" =>
               \A t \in DOMAIN FA_documentTypes :
                   C12_examinedFields # Elements(FA_documentTypes[t].requiredFields)
        /\ op = "FA_checkDocumentValidity" =>
               \A t \in DOMAIN FA_documentTypes : \A i \in 1..Len(result.issues) :
                   result.issues[i][2]
                       \notin Elements(FA_documentTypes[t].validityRules.requiredSignatures)

\* what the checks do instead: they answer as for a purchase agreement
C12_UnknownTypeAsAPS ==
    FA_unknownType =>
        /\ op = "FA_checkFieldCompleteness" =>
               result = FA_checkFieldCompleteness(TextChars(text), APS)
        /\ op = "FA_checkDocumentValidity" =>
               result = FA_checkDocumentValidity(TextChars(text), APS)


(***************************************************************************)
(* Services that are not configured or do not answer                       *)
(***************************************************************************)
\* the service is not there for the request: not configured, or failing
Unconfigured(service) == ~service.configured
Unavailable(service) == service.configured /\ service.answer = "error"

\* document type identification answered from the filename
C13_fromFilename ==
    result = SS_detectDocumentTypeFromFilename(Str(filename))

\* C13: when the service behind it is not configured or is unavailable, GET
\* /api/rules and POST /api/search/brief answer 200 from the mock data and the
\* identification of the document type answers from the filename
C13_FallbackWithoutService ==
    /\ (op = "AD_rules"
        /\ (Unconfigured(upstream.cosmos) \/ Unavailable(upstream.cosmos))) =>
           result.status = 200 /\ result.body.source = "mock"
    /\ (op = "AD_searchBrief"
        /\ (Unconfigured(upstream.search) \/ Unavailable(upstream.search))) =>
           result.status = 200 /\ result.body.source = "mock"
    /\ (op = "SS_identifyDocumentType"
        /\ (~upstream.openai.configured \/ upstream.openai.reply = "error")) =>
           C13_fromFilename

\* what holds: the fallback is taken for a service that is not configured, and by
\* the identification also for one that fails; a configured store or search
\* that fails is answered with status 500
C13_FallbackWhenUnconfigured ==
    /\ (op = "AD_rules" /\ Unconfigured(upstream.cosmos)) =>
           result.status = 200 /\ result.body.source = "mock"
    /\ (op = "AD_searchBrief" /\ Unconfigured(upstream.search)) =>
           result.status = 200 /\ result.body.source = "mock"
    /\ (op = "AD_rules" /\ Unavailable(upstream.cosmos)) =>
           result = Response(500, [error |-> "Failed to fetch rules"])
    /\ (op = "AD_searchBrief" /\ Unavailable(upstream.search)) =>
           result = Response(500, [error |-> "Search failed"])
    /\ (op = "SS_identifyDocumentType"
        /\ (~upstream.openai.configured \/ upstream.openai.reply = "error")) =>
           C13_fromFilename


(***************************************************************************)
(* What the analyzer has learnt                                            *)
(***************************************************************************)
\* the last entry of learningHistory
LastLearnt == aiAnalyzer.learningHistory[Len(aiAnalyzer.learningHistory)]

\* C14: whatever was analysed, trained and asked before, the classification that
\* an analysis yields for a file (type and confidence) is the one a new analyzer
\* yields for it
C14_LearningLeavesClassification ==
    /\ Len(aiAnalyzer.learningHistory) > 0 =>
           LastLearnt.classification =
               AI_classifyDocument(AI_extractTextFromFile(LastLearnt.filename),
                                   Str(LastLearnt.filename))
    /\ op \in {"AI_analyzeDocument", "TR_analyzeNext"} =>
           /\ result.documentType = LastLearnt.classification.documentType
           /\ result.classificationConfidence = LastLearnt.classification.confidence

\* a file is analysed for the page after a question was asked and a training
\* run refined its patterns
C14_Witness ==
    /\ op = "AI_analyzeDocument"
    /\ calls.chat = 1
    /\ trainingSystem.trainingProgress.patternsRefined > 0
    /\ Len(aiAnalyzer.learningHistory) > Len(TR_trainingData) * TR_trainingPasses
    /\ result.documentType = APS

\* C15: the tables of the analyzer (the recognition patterns with their required
\* fields, the field patterns) and the training documents are what they were
\* after construction, whatever was analysed, trained and asked
C15_ProfilesAreStatic ==
    /\ aiAnalyzer.documentPatterns = AI_constructor.documentPatterns
    /\ aiAnalyzer.fieldPatterns = AI_constructor.fieldPatterns
    /\ trainingSystem.trainingData \in {TR_constructor.trainingData, TR_trainingData}

\* two training runs have refined patterns, a file was analysed and a question asked
C15_Witness ==
    /\ trainingSystem.run = "idle"
    /\ Len(trainingSystem.trainingResults) = 2 * TR_trainingPasses
    /\ trainingSystem.trainingProgress.patternsRefined > 0
    /\ calls.analyze = 1
    /\ calls.chat = 1

(***************************************************************************)
(* A training run                                                          *)
(***************************************************************************)
\* the file names of a list of documents or of comparisons
Filenames_of(list) == [i \in 1..Len(list) |-> list[i].filename]

\* the pass results are those of whole runs of passes 1, 2, 3, each with one
\* comparison per training document, in the order of the documents
TR_wholePasses(results) ==
    \A k \in 1..Len(results) :
        /\ results[k].pass = ((k - 1) % TR_trainingPasses) + 1
        /\ Filenames_of(results[k].results) = Filenames_of(trainingSystem.trainingData)

\* while a run is under way: the passes before the current one are in
\* trainingResults, and the current one has compared the documents before next
C17_RunInOrder ==
    /\ TR_wholePasses(trainingSystem.trainingResults)
    /\ trainingSystem.isTraining = (trainingSystem.run # "idle")
    /\ trainingSystem.run = "idle" =>
           /\ Len(trainingSystem.trainingResults) = calls.train * TR_trainingPasses
           /\ Len(aiAnalyzer.learningHistory) =
                  calls.analyze
                  + calls.train * TR_trainingPasses * Len(trainingSystem.trainingData)
    /\ trainingSystem.run = "pass" =>
           /\ trainingSystem.pass \in 1..TR_trainingPasses
           /\ trainingSystem.currentPass = trainingSystem.pass
           /\ Len(trainingSystem.trainingResults) =
                  (calls.train - 1) * TR_trainingPasses + trainingSystem.pass - 1
           /\ Filenames_of(trainingSystem.passResults.results) =
                  SubSeq(Filenames_of(trainingSystem.trainingData), 1, trainingSystem.next - 1)
    /\ trainingSystem.run = "finalize" =>
           Len(trainingSystem.trainingResults) = calls.train * TR_trainingPasses

\* C17: a run of startTraining makes the passes 1, 2, 3 in this order, analyses
\* every training document once in each pass, pushes one pass result per pass
\* and comes to its end, where isTraining is false
C17_TrainingRunTerminates ==
    /\ []C17_RunInOrder
    /\ \A n \in 1..MaxTrainings :
           (trainingSystem.isTraining /\ calls.train = n)
               ~> (~trainingSystem.isTraining
                   /\ Len(trainingSystem.trainingResults) = n * TR_trainingPasses)

\* the second run has ended: six pass results over the twelve documents
C17_Witness ==
    /\ op = "TR_finalize"
    /\ ~trainingSystem.isTraining
    /\ Len(trainingSystem.trainingData) = 12
    /\ Len(trainingSystem.trainingResults) = 2 * TR_trainingPasses
    /\ trainingSystem.trainingProgress.processedDocuments = 12



(***************************************************************************)
(* Requests at the same time                                               *)
(***************************************************************************)
\* what the handler of the route answers to a request that is alone
AloneResponses(req, today) ==
    CASE req.kind = "FA_ScanDoc" -> {FA_scanDoc(req.file, today)}
      [] req.kind = "FA_qa" ->
            FA_qaRequest(QuestionOf(req.body), req.body.documentType, Null, today)
      [] req.kind = "SSM_ScanDoc" ->
            {SSM_timeout(req, today, RandomPool[r]) : r \in 1..Len(RandomPool)}
      [] req.kind = "SSA_ScanDoc" -> {SSA_scanDoc(req.file, req.services, today)}

\* a response without the identifier and the time stamp of the request
AnalysisContent(response) ==
    IF response.responded /\ response.status = 200
    THEN [response EXCEPT
             !.body = [p \in DOMAIN response.body \ {"correlationId", "timestamp"} |->
                          response.body[p]]]
    ELSE response

\* C16: whatever other requests are under way, the type, confidence,
\* completeness, validity, reasons and suggested actions of a response are those
\* the handler gives to the same request alone
C16_NoInterference ==
    \A id \in 1..Len(inflight) :
        inflight[id].stage = "done" =>
            AnalysisContent(inflight[id].response)
                \in {AnalysisContent(response) :
                        response \in AloneResponses(inflight[id].req, now)}

\* the first request is answered after a second one, for another file and with
\* other services, went on between its steps
C16_Witness ==
    /\ Len(inflight) = 2
    /\ op = "SSA_validated"
    /\ inflight[1].stage = "done"
    /\ inflight[1].response.responded
    /\ inflight[1].response.status = 200
    /\ inflight[2].req.kind = "SSA_ScanDoc"
    /\ inflight[2].stage = "complete"
    /\ inflight[2].req.file # inflight[1].req.file
    /\ inflight[2].req.services # inflight[1].req.services


(***************************************************************************)
(* Status and score                                                        *)
(***************************************************************************)
\* the place of a status in the order of its checker; 0 for a status outside it
Rank(status) ==
    CASE status \in {"Incomplete", "Invalid"} -> 1
      [] status \in {"Partially Complete", "Potentially Invalid"} -> 2
      [] status \in {"Mostly Complete", "Valid with Issues", "Valid with Warnings"} -> 3
      [] status \in {"Complete", "Valid"} -> 4
      [] OTHER -> 0

Better(status, than) == Rank(status) > 0 /\ Rank(than) > 0 /\ Rank(status) > Rank(than)

\* C18: of two results of one checker, the one whose score is not greater has
\* not the better status
C18_StatusMonotonic ==
    (op \in BucketCheckers /\ documentData # Null) =>
        /\ documentData.score <= result.score => ~Better(documentData.status, result.status)
        /\ result.score <= documentData.score => ~Better(result.status, documentData.status)

\* the validity check of simple-server.js gives 'Potentially Invalid' and, for a
\* text with a higher score, 'Valid with Issues'
C18_Witness ==
    /\ op = "SS_checkDocumentValidity"
    /\ documentData # Null
    /\ documentData.score < result.score
    /\ documentData.status = "Potentially Invalid"
    /\ result.status = "Valid with Issues"

\* how many fields of the list the patterns of isFieldPresent find in the text
PresentOf(list) ==
    Cardinality({i \in 1..Len(list) : SS_isFieldPresent(TextChars(text), list[i])})

\* score is the whole number nearest to num / den, the upper one of two
IsRounded(score, num, den) ==
    /\ den * (2 * score - 1) <= 2 * num
    /\ 2 * num < den * (2 * score + 1)

\* C19: the score of the weighted completeness check is
\* round(80 * presentRequired / totalRequired + 20 * presentOptional / totalOptional)
\* and lies in 0..100
C19_WeightedScore ==
    op = "SS_checkFieldCompleteness" =>
        LET profile == IF docType \in DOMAIN SS_documentTypes
                       THEN SS_documentTypes[docType]
                       ELSE SS_documentTypes[APS]
            totalRequired == Len(profile.requiredFields)
            totalOptional == Len(profile.optionalFields)
        IN  /\ result.score \in 0..100
            /\ totalRequired > 0
            /\ totalOptional > 0
            /\ IsRounded(result.score,
                         80 * PresentOf(profile.requiredFields) * totalOptional
                             + 20 * PresentOf(profile.optionalFields) * totalRequired,
                         totalRequired * totalOptional)

\* a mortgage statement with one required field of five and one optional field
\* of three: 16 + 6.67 gives 23
C19_Witness ==
    /\ op = "SS_checkFieldCompleteness"
    /\ docType = "Mortgage Statement"
    /\ result.presentRequired = <<"statementDate">>
    /\ result.presentOptional = <<"propertyAddress">>
    /\ result.score = 23

\* what an issue and a warning of the validity checks take from the score
IssuePenalty(issue) ==
    CASE issue[1] = "Missing required signature" -> 20
      [] issue[1] = "Document exceeds maximum age" -> 30
      [] issue[1] = "Deposit amount is below minimum required" -> 15
      [] issue[1] = "Invalid form number" -> 25

WarningPenalty(warning) ==
    CASE warning = "No date found in document" -> 10
      [] warning = "No issue date found" -> 5
      [] warning = "approaching expiry" -> 10

RECURSIVE IssuePenalties(_)
IssuePenalties(issues) ==
    IF issues = <<>> THEN 0 ELSE IssuePenalty(Head(issues)) + IssuePenalties(Tail(issues))

RECURSIVE WarningPenalties(_)
WarningPenalties(warnings) ==
    IF warnings = <<>> THEN 0
    ELSE WarningPenalty(Head(warnings)) + WarningPenalties(Tail(warnings))

SignatureCheckers == {"FA_checkDocumentValidity", "SS_checkDocumentValidity"}

\* the required signer roles of the profile that the check of docType uses
RequiredRoles ==
    IF op = "FA_checkDocumentValidity"
    THEN (IF docType \in DOMAIN FA_documentTypes
          THEN FA_documentTypes[docType] ELSE FA_documentTypes[APS])
             .validityRules.requiredSignatures
    ELSE (IF docType \in DOMAIN SS_validityRules
          THEN SS_validityRules[docType] ELSE SS_validityRules[APS]).requiredSignatures

\* the issues of the result that name the role
IssuesNaming(role) ==
    {i \in 1..Len(result.issues) :
        result.issues[i] = <<"Missing required signature", role>>}

\* C20: the validity check records one issue, with a penalty of 20, for each
\* required signer role whose signature pattern does not match the text, none for
\* a role whose pattern matches, and no signature issue for anything else
C20_SignaturePerRole ==
    op \in SignatureCheckers =>
        /\ \A r \in 1..Len(RequiredRoles) :
               Cardinality(IssuesNaming(RequiredRoles[r])) =
                   IF test(FA_signaturePatterns[RequiredRoles[r]], TextChars(text))
                   THEN 0 ELSE 1
        /\ \A i \in 1..Len(result.issues) :
               result.issues[i][1] = "Missing required signature" =>
                   \E r \in 1..Len(RequiredRoles) : result.issues[i][2] = RequiredRoles[r]
        /\ result.score = 100 - IssuePenalties(result.issues)
                              - WarningPenalties(result.warnings)

\* an agreement of purchase and sale signed by the buyer only: one issue, which
\* names the seller
C20_Witness ==
    /\ op = "SS_checkDocumentValidity"
    /\ docType = APS
    /\ test(FA_signaturePatterns["buyer"], TextChars(text))
    /\ IssuesNaming("buyer") = {}
    /\ Cardinality(IssuesNaming("seller")) = 1
    /\ result.score = 80

\* the text holds a date as the date pattern of extractDate writes it
HoldsDate == test(Re(Alt(<<SlashDate, IsoDate>>)), TextChars(text))

\* the issues and warnings of the date rule
ExpiredIssue == <<"Document exceeds maximum age">>
NoDateWarning == "No issue date found"

Recorded(list, entry) == \E i \in 1..Len(list) : list[i] = entry

\* what the date rule took from the score: the other penalties are put back
DatePenalty ==
    100 - result.score
        - (IssuePenalties(result.issues)
           - (IF Recorded(result.issues, ExpiredIssue) THEN 30 ELSE 0))

\* C21: without a date only the missing-date penalty is applied; with a date the
\* age is computed, and an age over maxAge gives the expiry penalty and an issue
C21_DateRule ==
    op = "SS_checkDocumentValidity" =>
        /\ ~HoldsDate =>
               /\ result.expiryInfo.ageInDays = Null
               /\ Recorded(result.warnings, NoDateWarning)
               /\ ~Recorded(result.issues, ExpiredIssue)
               /\ DatePenalty = 5
        /\ HoldsDate =>
               /\ result.expiryInfo.ageInDays # Null
               /\ ~Recorded(result.warnings, NoDateWarning)
               /\ (IsNumber(result.expiryInfo.ageInDays)
                   /\ result.expiryInfo.ageInDays.v > SS_docRules(docType).maxAge) =>
                      /\ Recorded(result.issues, ExpiredIssue)
                      /\ DatePenalty = 30

\* the part of C21 for a text without a date
C21_NoDate ==
    (op = "SS_checkDocumentValidity" /\ ~HoldsDate) =>
        /\ result.expiryInfo.ageInDays = Null
        /\ Recorded(result.warnings, NoDateWarning)
        /\ DatePenalty = 5

\* the part of C21 for a text in which extractDate finds a date
C21_DateFound ==
    (op = "SS_checkDocumentValidity" /\ SS_issueDate(TextChars(text)) # <<>>) =>
        /\ result.expiryInfo.ageInDays # Null
        /\ (IsNumber(result.expiryInfo.ageInDays)
            /\ result.expiryInfo.ageInDays.v > SS_docRules(docType).maxAge) =>
               /\ Recorded(result.issues, ExpiredIssue)
               /\ DatePenalty = 30

\* a text whose only date follows no 'dated' or 'issue date' is treated as a
\* text without a date
C21_OneDateIsNoDate ==
    /\ op = "SS_checkDocumentValidity"
    /\ text = <<"Closing Date: 06/15/2024">>
    /\ result.expiryInfo.ageInDays = Null
    /\ Recorded(result.warnings, NoDateWarning)

\* the entries that the catch clause of runTrainingPass recorded in a pass result
FailuresOf(passResult) ==
    {i \in 1..Len(passResult.errors) : "errors" \notin DOMAIN passResult.errors[i]}

\* analyzeDocument threw in a pass of a run
SomeFailure ==
    \E p \in 1..Len(trainingSystem.trainingResults) :
        FailuresOf(trainingSystem.trainingResults[p]) # {}

\* C23: a training run in which analyzeDocument throws still pushes its three
\* pass results and ends with isTraining = false
C23_RunSurvivesFailures ==
    trainingSystem.isTraining ~>
        (/\ ~trainingSystem.isTraining
         /\ Len(trainingSystem.trainingResults) % TR_trainingPasses = 0)

\* startTraining has ended with an exception after a failure in pass 2 and has
\* left isTraining = true, and a later call of startTraining has returned at once
C23_StuckAfterFailure ==
    /\ op = "TR_startTraining"
    /\ trainingSystem.run = "rejected"
    /\ trainingSystem.isTraining
    /\ Len(trainingSystem.trainingResults) = 2
    /\ FailuresOf(trainingSystem.trainingResults[2]) # {}

\* the part of C23 that the code keeps: failures in the first pass of the first
\* run alone do not end the run
C23_FirstPassFailuresSurvive ==
    trainingSystem.run = "rejected" =>
        \E p \in 2..Len(trainingSystem.trainingResults) :
            FailuresOf(trainingSystem.trainingResults[p]) # {}

\* a call of startTraining is made in the step
StartCalled == calls'.train + calls'.ignored > calls.train + calls.ignored

\* the pass results are those of whole runs, one after the other: pass 1, 2, 3,
\* 1, 2, 3, each with one comparison for each training document, in their order
C22_PassesInOrder ==
    /\ \A p \in 1..Len(trainingSystem.trainingResults) :
           /\ trainingSystem.trainingResults[p].pass = ((p - 1) % TR_trainingPasses) + 1
           /\ Filenames_of(trainingSystem.trainingResults[p].results)
                  = Filenames_of(trainingSystem.trainingData)
    /\ trainingSystem.isTraining =>
           /\ trainingSystem.pass = (Len(trainingSystem.trainingResults) % TR_trainingPasses) + 1
              \/ trainingSystem.run = "finalize"
           /\ trainingSystem.passResults.pass = trainingSystem.pass

\* C22: a call of startTraining during a run changes nothing of the training
\* system, and the passes of two runs never interleave
C22_OneRunAtATime ==
    /\ [][(StartCalled /\ trainingSystem.isTraining) => trainingSystem' = trainingSystem]_vars
    /\ []C22_PassesInOrder

\* Start Training was clicked during pass 2 of a run, after a click on Stop
\* Training had enabled the button again
C22_Witness ==
    /\ op = "TD_startTraining"
    /\ calls.ignored > 0
    /\ trainingSystem.isTraining
    /\ trainingSystem.pass = 2
    /\ trainingSystem.next > 1
    /\ Len(trainingSystem.trainingResults) = 1

\* the statuses that report a document as valid
ValidStatuses == {"Valid", "Valid with Issues", "Valid with Warnings"}

\* the validity check of the state found the document expired
FoundExpired ==
    \/ /\ op = "SS_checkDocumentValidity"
       /\ result.expiryInfo.isExpired \/ Recorded(result.issues, ExpiredIssue)
    \/ /\ op = "AI_analyzeValidity"
       /\ Recorded(result.issues, "Document appears to be expired")

\* C24: a document that the validity check found expired is not given one of the
\* statuses 'Valid', 'Valid with Issues', 'Valid with Warnings'
C24_ExpiredNeverValid == FoundExpired => result.status \notin ValidStatuses

\* a document dated more than maxAge days ago, with all its signatures: the
\* expiry penalty alone makes it 'Potentially Invalid'
C24_Witness ==
    /\ op = "SS_checkDocumentValidity"
    /\ result.expiryInfo.isExpired
    /\ result.signatureCheck.missing = <<>>
    /\ result.score = 70
    /\ result.status = "Potentially Invalid"

\* the operations whose result holds validityStatus and validityCheck
LabelledAnalyses == {"AI_analyzeText", "AI_analyzeDocument"}

\* C25: the validityStatus of an analysis result is the status of its
\* validityCheck
C25_LabelsAgree ==
    op \in LabelledAnalyses => result.validityStatus = result.validityCheck.status

\* a signed text with a bracket and no date: the check says 'Valid with Warnings'
\* and the result 'Valid with Issues'
C25_LabelsDisagree ==
    /\ op = "AI_analyzeText"
    /\ text = <<"Buyer Signature: [Signed]">>
    /\ result.validityCheck.issues = <<>>
    /\ result.validityCheck.status = "Valid with Warnings"
    /\ result.validityStatus = "Valid with Issues"

\* the part of C25 that the code keeps: the labels differ only when the check
\* has warnings and no issue, and the texts of the mock extractTextFromFile all
\* have an issue
C25_AgreeButForWarnings ==
    /\ (op \in LabelledAnalyses /\ result.validityStatus # result.validityCheck.status) =>
           /\ result.validityCheck.issues = <<>>
           /\ result.validityCheck.warnings # <<>>
    /\ op = "AI_analyzeDocument" =>
           /\ result.validityStatus = "Invalid"
           /\ result.validityCheck.status = "Invalid"

\* the requests that were answered with a result that holds a correlationId
Identified ==
    {id \in 1..Len(inflight) :
        /\ inflight[id].response.responded
        /\ inflight[id].response.status = 200
        /\ "correlationId" \in DOMAIN inflight[id].response.body}

CorrelationIdOf(id) == inflight[id].response.body.correlationId

\* C26: no two requests to /api/ScanDoc are answered with the same
\* correlationId, be they answered one after the other or within the same tick
\* of the clock
C26_UniqueCorrelationIds ==
    \A i, j \in Identified : i # j => CorrelationIdOf(i) # CorrelationIdOf(j)

\* two requests to function-app.js for different files are answered within the
\* same tick of the clock, the second after the first: both are doc_<the tick>
C26_SameTickSameId ==
    /\ Identified = {1, 2}
    /\ inflight[1].req.kind = "FA_ScanDoc"
    /\ inflight[2].req.kind = "FA_ScanDoc"
    /\ inflight[1].req.file # inflight[2].req.file
    /\ inflight[1].response.body.timestamp = inflight[2].response.body.timestamp
    /\ CorrelationIdOf(1) = CorrelationIdOf(2)

\* the same with simple-server.js and Document Intelligence configured
C26_SameSecondSameId ==
    /\ Identified = {1, 2}
    /\ inflight[1].req.kind = "SSA_ScanDoc"
    /\ inflight[2].req.kind = "SSA_ScanDoc"
    /\ CorrelationIdOf(1) = CorrelationIdOf(2)

\* the part of C26 that the code keeps: two results of the same server with the
\* same correlationId were made at the same reading of the clock, and those of
\* the two servers differ
C26_UniqueAcrossTicks ==
    \A i, j \in Identified :
        (i # j /\ CorrelationIdOf(i) = CorrelationIdOf(j)) =>
            /\ inflight[i].req.kind = inflight[j].req.kind
            /\ inflight[i].req.kind # "SSM_ScanDoc" =>
                   inflight[i].response.body.timestamp = inflight[j].response.body.timestamp

\* two requests answered at different readings of the clock
C26_AcrossTicks ==
    /\ Identified = {1, 2}
    /\ inflight[1].req.kind = "FA_ScanDoc"
    /\ inflight[2].req.kind = "FA_ScanDoc"
    /\ inflight[1].response.body.timestamp # inflight[2].response.body.timestamp
    /\ CorrelationIdOf(1) # CorrelationIdOf(2)

\* the call of analyzeDocumentWithAI whose analyze request was accepted
Submitted == inflight # <<>> /\ inflight[1].submitted
PollEnded == Submitted /\ inflight[1].stage = "ended"
TerminalStatuses == {"succeeded", "failed", "error"}

\* the statuses seen before the last one
EarlierStatuses(call) == {call.seen[i] : i \in 1..(Len(call.seen) - 1)}

LastStatus(call) == call.seen[Len(call.seen)]

\* the three ways in which the call ends after statuses were reported
EndsOnStatus(call) ==
    \/ /\ ~call.outcome.threw
       /\ call.seen # <<>>
       /\ LastStatus(call) = "succeeded"
    \/ /\ call.outcome = Threw("Document analysis failed")
       /\ call.seen # <<>>
       /\ LastStatus(call) = "failed"
    \/ /\ call.outcome = Threw("Document analysis timed out")
       /\ Len(call.seen) = SSA_maxAttempts
       /\ LastStatus(call) \notin TerminalStatuses

\* the fourth: the request of a poll is itself rejected
EndsOnRejection(call) ==
    /\ call.outcome = Threw("Request failed")
    /\ call.seen # <<>>
    /\ LastStatus(call) = "error"

C27_PollRejected ==
    /\ PollEnded
    /\ Len(inflight[1].seen) = 3
    /\ EndsOnRejection(inflight[1])
    /\ ~EndsOnStatus(inflight[1])

ConversationHistory == chatSystem.conversationHistory

\* the entries of a type, in the order of the history
EntriesOf(type) == SelectSeq(ConversationHistory, LAMBDA entry : entry.type = type)

\* the ai entry holds the response to the question of the user entry
Answers(ai, user) ==
    /\ ai.type = "ai"
    /\ user.type = "user"
    /\ ai.response
           = EC_generateContextualResponse(user.question, user.questionType,
                                           EC_extractDocumentContext(documentData), now)

\* C28: in conversationHistory every user entry is followed at once by the ai
\* entry that answers it, the last one as soon as its call has ended, also
\* when a call of processQuestion starts before an earlier one has ended
C28_Alternates ==
    /\ \A i \in 1..Len(ConversationHistory) :
           ConversationHistory[i].type = (IF i % 2 = 1 THEN "user" ELSE "ai")
    /\ \A i \in 1..(Len(ConversationHistory) - 1) :
           i % 2 = 1 => Answers(ConversationHistory[i + 1], ConversationHistory[i])

\* two questions were asked before the first was answered: the history is user,
\* user, ai, ai, and the third entry answers the first
C28_TwoQuestionsInARow ==
    /\ Len(ConversationHistory) = 4
    /\ Awaiting = {}
    /\ ConversationHistory[1].type = "user"
    /\ ConversationHistory[2].type = "user"
    /\ ConversationHistory[1].question # ConversationHistory[2].question
    /\ Answers(ConversationHistory[3], ConversationHistory[1])
    /\ Answers(ConversationHistory[4], ConversationHistory[2])

\* the part of C28 that the code keeps: the k-th ai entry answers the k-th
\* user entry, and the user entries without an answer are as many as the calls
\* that stand at their await
C28_AnswersInOrder ==
    /\ Len(EntriesOf("user")) = Len(inflight)
    /\ Len(EntriesOf("ai")) = Len(inflight) - Cardinality(Awaiting)
    /\ \A k \in 1..Len(EntriesOf("ai")) : Answers(EntriesOf("ai")[k], EntriesOf("user")[k])

\* a call that begins when no call stands at its await leaves the history as
\* processQuestion run in one piece does
C28_AloneAlternates ==
    [][(Awaiting = {} /\ op' = "EC_asked")
          => \E out \in {EC_processQuestion(chatSystem, QuestionChars(question'),
                                            documentData, now)} :
                 EC_answered(chatSystem', inflight'[Len(inflight')], now) = out.system]_vars

\* C29: whatever feedback submissions and chat interactions went before,
\* getFeedbackStats returns as totalFeedback the number of the feedback
\* submissions that were processed
C29_FeedbackCounted ==
    op = "FS_getFeedbackStats" =>
        /\ ~result.threw
        /\ result.value.totalFeedback = Number(calls.feedback)

\* a feedback, then an answer of the chat: saveLearningMetrics has written the
\* metrics of the SelfLearningSystem over those of the feedback, and
\* getFeedbackStats throws
C29_CounterLost ==
    /\ op = "FS_getFeedbackStats"
    /\ calls.feedback = 1
    /\ calls.chat = 1
    /\ ~HasProp(localStorage.learning_metrics, "totalFeedback")
    /\ Len(localStorage.user_feedback_history) = 1
    /\ result.threw

\* an answer of the chat, then two feedbacks: the first counts from undefined
\* and stores null, the second counts from null, and getFeedbackStats returns 1
C29_CounterWrong ==
    /\ op = "FS_getFeedbackStats"
    /\ calls.feedback = 2
    /\ ~result.threw
    /\ result.value.totalFeedback = Number(1)
    /\ Len(result.value.recentFeedback) = 2

\* the part of C29 that the code keeps: as long as no SelfLearningSystem has
\* written learning_metrics, in this session or an earlier one, the count is right
C29_CountedWithoutChat ==
    (/\ op = "FS_getFeedbackStats"
     /\ calls.chat = 0
     /\ learningSystem.learningMetrics.totalInteractions = 0) =>
        /\ ~result.threw
        /\ result.value.totalFeedback = Number(calls.feedback)
        /\ Len(result.value.recentFeedback) = calls.feedback

\* two feedbacks and no chat: the count is 2
C29_TwoCounted ==
    /\ op = "FS_getFeedbackStats"
    /\ calls.chat = 0
    /\ calls.feedback = 2
    /\ result = Returned(result.value)
    /\ result.value.totalFeedback = Number(2)

\* the names of the fields of a stored document, in either of its maps
FieldsOf(doc) == DOMAIN doc.fields \cup DOMAIN doc.fieldStatus

\* fieldStatus[f] is defined and is fields[f].isFilled
StatusAgrees(doc, f) ==
    /\ f \in DOMAIN doc.fieldStatus
    /\ f \in DOMAIN doc.fields
    /\ doc.fieldStatus[f] = doc.fields[f].isFilled

\* C30: after any calls of storeFieldAnalysis and updateFieldStatus, also with
\* the id of no document or the name of no field, every stored document has
\* for each field name of its two maps a fieldStatus that is the isFilled of
\* the field
C30_StatusAgrees ==
    \A i \in 1..Len(StoredAnalyses) :
        \A f \in FieldsOf(StoredAnalyses[i]) : StatusAgrees(StoredAnalyses[i], f)

\* updateFieldStatus(id, 'constructor', true) returned true: the document is
\* stored with a fieldStatus for a field that its fields do not hold
C30_InheritedName ==
    /\ op = "RD_updateFieldStatus"
    /\ result = Returned(TRUE)
    /\ Len(StoredAnalyses) = 1
    /\ StoredAnalyses[1].documentType = APS
    /\ "constructor" \in DOMAIN StoredAnalyses[1].fieldStatus
    /\ "constructor" \notin DOMAIN StoredAnalyses[1].fields
    /\ StoredAnalyses[1].fieldStatus["constructor"]

\* the part of C30 that the code keeps: the maps agree on every field but the
\* names that objects inherit, and an update with the id of no document or
\* with a name that no object has leaves localStorage as it is
C30_AgreesButInherited ==
    \A i \in 1..Len(StoredAnalyses) :
        \A f \in FieldsOf(StoredAnalyses[i]) \ ObjectPrototypeNames :
            StatusAgrees(StoredAnalyses[i], f)

\* a field that the text holds filled was set to empty by an update
C30_Updated ==
    /\ op = "RD_updateFieldStatus"
    /\ result = Returned(TRUE)
    /\ Len(StoredAnalyses) = 1
    /\ text = <<"Buyer: John Smith">>
    /\ StoredAnalyses[1].fields["buyerName"].value = Str("John Smith")
    /\ ~StoredAnalyses[1].fields["buyerName"].isFilled
    /\ ~StoredAnalyses[1].fieldStatus["buyerName"]
    /\ StoredAnalyses[1].fieldStatus["purchasePrice"] = FALSE
    /\ "lastUpdated" \in DOMAIN StoredAnalyses[1]

\* an update that names no stored document or no field returns false
C30_UnknownIgnored ==
    [][(op' = "RD_updateFieldStatus" /\ result' = Returned(FALSE))
          => localStorage' = localStorage]_vars

=============================================================================
